---- MODULE Spec2Model ----
(***************************************************************************)
(* Webhook delivery subsystem of wa-gateway: the QR (challenge) store, the *)
(* webhook auth-header resolver with its OAuth token cache, the tenant     *)
(* lookup by session name and the event handlers that fan an event out to  *)
(* the tenant callback and to the legacy global webhook.                   *)
(*                                                                         *)
(* Time is counted in minutes: 5 * 60 * 1000 ms is 5, 3600 s is 60.        *)
(***************************************************************************)
EXTENDS Integers, Sequences, FiniteSets, TLC

(* ------------------------------ bounds --------------------------------- *)

\* the clock stops advancing here while QR codes are polled
MaxTime == 6

\* the clock stops advancing here while events are dispatched
MaxClock == 1

\* protocol events handled in one run
MaxEvents == 1

\* PUT /dashboard/webhook-auth and PUT /dashboard/callback requests in one run
MaxUpdates == 1

(* ------------------------- program constants --------------------------- *)

\* QRStore.TTL = 5 * 60 * 1000
TTL == 5

\* isTokenExpired: bufferTime = 5 * 60 * 1000
bufferTime == 5

\* getValidOAuthToken: tokenResponse.expires_in || 3600
DefaultExpiresIn == 60

(* ------------------------------ values --------------------------------- *)

\* null / undefined of a string-valued field
NULL == "NULL"

\* null of webhook_auth_token_expiration, undefined of expires_in
Absent == -1

\* rows of the users table (username is UNIQUE NOT NULL)
Tenants == {"alice", "bob"}

\* env.ADMIN_USER
AdminUser == "admin"

\* session names the protocol layer reports; "ghost" has no row in users
Sessions == Tenants \cup {"ghost", AdminUser}

UserId(name) == IF name = "alice" THEN 1 ELSE 2

CallbackOf(name) == IF name = "alice" THEN "https://x/hook" ELSE "https://y/hook"

LegacyUrl == "https://g/hook"

TokenUrl == "https://x/oauth/token"

\* a token string: absent, supplied by the user (bearer), or issued by the
\* token endpoint for the credentials of configuration generation gen to the
\* token request of event handler ev (0: a run before this one)
NoToken == [kind |-> "null", gen |-> 0, ev |-> 0]

StaticToken == [kind |-> "static", gen |-> 0, ev |-> 0]

IssuedToken(g, e) == [kind |-> "oauth", gen |-> g, ev |-> e]

\* JavaScript truthiness of a string | null and of a number | undefined
TruthyStr(s) == s # NULL /\ s # ""

TruthyTok(t) == t.kind # "null"

TruthyNum(n) == n # Absent /\ n # 0

\* a || b on numbers
OrNum(a, b) == IF TruthyNum(a) THEN a ELSE b

(* ------------------------------- state --------------------------------- *)

VARIABLES
  now,        \* Date.now()
  users,      \* the users table, by username
  cfgGen,     \* per tenant: number of webhook-auth updates so far
  legacyUrl,  \* env.WEBHOOK_BASE_URL
  qrCodes,    \* QRStore.qrCodes
  lastStore,  \* per session: the last storeQR not followed by a removeQR
  events,     \* the event handlers started so far, in order of arrival
  nupd,       \* dashboard updates so far
  sessions,   \* names of the protocol sessions whatsapp.getSession finds
  ret         \* what the operation of the last step returned

vars == <<now, users, cfgGen, legacyUrl, qrCodes, lastStore, events, nupd, sessions, ret>>

NoRet == [op |-> "none"]

\* the row getUserByUsername returns undefined for
NoUser ==
  [id |-> 0, username |-> NULL, is_admin |-> 0, callback_url |-> NULL,
   webhook_auth_type |-> NULL, webhook_auth_username |-> NULL,
   webhook_auth_password |-> NULL, webhook_auth_token_url |-> NULL,
   webhook_auth_token |-> NoToken, webhook_auth_token_expiration |-> Absent,
   webhook_oauth_format |-> NULL]

\* INSERT INTO users (username, password): the column defaults
NewUser(name) ==
  [NoUser EXCEPT !.id = UserId(name), !.username = name,
                 !.webhook_auth_type = "none", !.webhook_oauth_format = "oauth2"]

(* ----------------------------- QR store -------------------------------- *)

NoQR == [qr |-> NULL, timestamp |-> Absent]

QRs == {"qr1", "qr2"}

\* variant: an entry that exists is kept
QRStore_storeQR_keep(store, sessionName, qr, t) ==
  IF store[sessionName] # NoQR THEN store
  ELSE [store EXCEPT ![sessionName] = [qr |-> qr, timestamp |-> t]]

\* this.qrCodes.set(sessionName, {qr, timestamp: Date.now()})
QRStore_storeQR(store, sessionName, qr, t) ==
  [store EXCEPT ![sessionName] = [qr |-> qr, timestamp |-> t]]

\* variant: an entry aged exactly TTL counts as expired
QRStore_expired_ge(stored, t) == t - stored.timestamp >= TTL

\* Date.now() - stored.timestamp > this.TTL
QRStore_expired(stored, t) == t - stored.timestamp > TTL

\* the value getQR returns
QRStore_getQR(store, sessionName, t) ==
  IF store[sessionName] = NoQR THEN NULL
  ELSE IF QRStore_expired(store[sessionName], t) THEN NULL
  ELSE store[sessionName].qr

\* variant: a read of an unexpired entry renews its timestamp
QRStore_afterGetQR_touch(store, sessionName, t) ==
  IF store[sessionName] = NoQR THEN store
  ELSE IF QRStore_expired(store[sessionName], t)
  THEN [store EXCEPT ![sessionName] = NoQR]
  ELSE [store EXCEPT ![sessionName].timestamp = t]

\* the map getQR leaves behind
QRStore_afterGetQR(store, sessionName, t) ==
  IF store[sessionName] # NoQR /\ QRStore_expired(store[sessionName], t)
  THEN [store EXCEPT ![sessionName] = NoQR]
  ELSE store

\* variant: the whole map is cleared
QRStore_removeQR_clear(store, sessionName) == [s \in DOMAIN store |-> NoQR]

\* variant: the entry is left in the map
QRStore_removeQR_noop(store, sessionName) == store

\* this.qrCodes.delete(sessionName)
QRStore_removeQR(store, sessionName) == [store EXCEPT ![sessionName] = NoQR]

\* variant: the sweep also deletes entries aged exactly TTL
QRStore_clearExpired_ge(store, t) ==
  [s \in DOMAIN store |->
     IF store[s] # NoQR /\ QRStore_expired_ge(store[s], t) THEN NoQR ELSE store[s]]

\* delete every entry with now - timestamp > TTL
QRStore_clearExpired(store, t) ==
  [s \in DOMAIN store |->
     IF store[s] # NoQR /\ QRStore_expired(store[s], t) THEN NoQR ELSE store[s]]

(* ------------------------- webhook-auth.ts ----------------------------- *)

\* what a throwing fetchOAuthToken yields
FetchThrows == [ok |-> FALSE, access_token |-> NoToken, expires_in |-> Absent]

FetchReturns(tok, exp) == [ok |-> TRUE, access_token |-> tok, expires_in |-> exp]

\* response.data of the token endpoint: the fields the code looks at
TokenData(at, tk, ei, eI, su, dp, dt, dei, deI) ==
  [access_token |-> at, token |-> tk, expires_in |-> ei, expiresIn |-> eI,
   success |-> su,
   data |-> [present |-> dp, token |-> dt, expires_in |-> dei, expiresIn |-> deI]]

NoTokenData ==
  TokenData(NoToken, NoToken, Absent, Absent, FALSE, FALSE, NoToken, Absent, Absent)

\* no answer from the token endpoint (yet)
NoAnswer == [net |-> "none", data |-> NoTokenData]

\* variant: the top-level token field is tried before access_token
ParseTokenData_tokenFirst(data) ==
  IF TruthyTok(data.token)
  THEN FetchReturns(data.token, OrNum(data.expires_in, data.expiresIn))
  ELSE IF TruthyTok(data.access_token)
  THEN FetchReturns(data.access_token, data.expires_in)
  ELSE IF data.success /\ data.data.present /\ TruthyTok(data.data.token)
  THEN FetchReturns(data.data.token, OrNum(data.data.expires_in, data.data.expiresIn))
  ELSE FetchThrows

\* the three accepted shapes, in the order the code tries them
ParseTokenData(data) ==
  IF TruthyTok(data.access_token)
  THEN FetchReturns(data.access_token, data.expires_in)
  ELSE IF TruthyTok(data.token)
  THEN FetchReturns(data.token, OrNum(data.expires_in, data.expiresIn))
  ELSE IF data.success /\ data.data.present /\ TruthyTok(data.data.token)
  THEN FetchReturns(data.data.token, OrNum(data.data.expires_in, data.data.expiresIn))
  ELSE FetchThrows

\* variant: a failed request counts as an answer without token
fetchOAuthToken_noThrow(resp) ==
  IF resp.net # "ok" THEN FetchReturns(NoToken, Absent) ELSE ParseTokenData(resp.data)

\* axios.post rejects on a network error and on a non-2xx status
fetchOAuthToken(resp) ==
  IF resp.net # "ok" THEN FetchThrows ELSE ParseTokenData(resp.data)

\* the request fetchOAuthToken sends
TokenRequest(user) ==
  LET format == IF TruthyStr(user.webhook_oauth_format)
                THEN user.webhook_oauth_format ELSE "oauth2"
  IN  IF format = "json"
      THEN [url |-> user.webhook_auth_token_url,
            contentType |-> "application/json",
            body |-> [username |-> user.webhook_auth_username,
                      password |-> user.webhook_auth_password]]
      ELSE [url |-> user.webhook_auth_token_url,
            contentType |-> "application/x-www-form-urlencoded",
            body |-> [grant_type |-> "client_credentials",
                      client_id |-> user.webhook_auth_username,
                      client_secret |-> user.webhook_auth_password]]

\* variant: the operands of the subtraction swapped
isTokenExpired_swapped(expirationTime, t) ==
  IF expirationTime = Absent THEN TRUE ELSE t - expirationTime < bufferTime

\* expiration.getTime() - now.getTime() < bufferTime
isTokenExpired(expirationTime, t) ==
  IF expirationTime = Absent THEN TRUE ELSE expirationTime - t < bufferTime

\* getValidOAuthToken: the "OAuth not configured" test
OAuthConfigured(user) ==
  /\ TruthyStr(user.webhook_auth_username)
  /\ TruthyStr(user.webhook_auth_password)
  /\ TruthyStr(user.webhook_auth_token_url)

\* getValidOAuthToken: the "token needs renewal" test
NeedsRenewal(user, t) ==
  \/ ~TruthyTok(user.webhook_auth_token)
  \/ isTokenExpired(user.webhook_auth_token_expiration, t)

\* getWebhookAuthHeaders reaches the token request
NeedsFetch(user, t) ==
  /\ user.id # 0
  /\ TruthyStr(user.webhook_auth_type)
  /\ user.webhook_auth_type = "oauth"
  /\ OAuthConfigured(user)
  /\ NeedsRenewal(user, t)

\* variant: a cached token is returned before the configuration is tested
CachedOAuthToken_cacheFirst(user) == user.webhook_auth_token

\* getValidOAuthToken when it returns without a request
CachedOAuthToken(user) ==
  IF OAuthConfigured(user) THEN user.webhook_auth_token ELSE NoToken

\* new Date(Date.now() + expiresIn * 1000)
TokenExpiration(expires_in, t) == t + OrNum(expires_in, DefaultExpiresIn)

\* variant: the failure of the token request is passed on to the caller
OAuthTokenResult_rethrow(r) ==
  [threw |-> ~r.ok, token |-> IF r.ok THEN r.access_token ELSE NoToken]

\* getValidOAuthToken after the request: try { ... } catch { return null }
OAuthTokenResult(r) ==
  [threw |-> FALSE, token |-> IF r.ok THEN r.access_token ELSE NoToken]

EmptyHeaders == [h \in {} |-> NULL]

Base64(s) == [base64 |-> s]

Bearer(token) == "Authorization" :> [scheme |-> "Bearer", credentials |-> token]

Basic(username, password) ==
  "Authorization" :> [scheme |-> "Basic",
                      credentials |-> Base64(username \o ":" \o password)]

\* variant: a stored token is sent whatever the auth type
getWebhookAuthHeaders_anyToken(user, oauthToken) ==
  IF user.id = 0
  THEN EmptyHeaders
  ELSE IF user.webhook_auth_type = "basic"
  THEN IF TruthyStr(user.webhook_auth_username) /\ TruthyStr(user.webhook_auth_password)
       THEN Basic(user.webhook_auth_username, user.webhook_auth_password)
       ELSE EmptyHeaders
  ELSE IF user.webhook_auth_type = "oauth"
  THEN IF TruthyTok(oauthToken) THEN Bearer(oauthToken) ELSE EmptyHeaders
  ELSE IF TruthyTok(user.webhook_auth_token)
  THEN Bearer(user.webhook_auth_token)
  ELSE EmptyHeaders

\* variant: Basic credentials are sent as soon as a username is configured
getWebhookAuthHeaders_userOnly(user, oauthToken) ==
  IF user.id = 0 \/ ~TruthyStr(user.webhook_auth_type) \/ user.webhook_auth_type = "none"
  THEN EmptyHeaders
  ELSE IF user.webhook_auth_type = "basic"
  THEN IF TruthyStr(user.webhook_auth_username)
       THEN Basic(user.webhook_auth_username, user.webhook_auth_password)
       ELSE EmptyHeaders
  ELSE IF user.webhook_auth_type = "bearer"
  THEN IF TruthyTok(user.webhook_auth_token)
       THEN Bearer(user.webhook_auth_token)
       ELSE EmptyHeaders
  ELSE IF user.webhook_auth_type = "oauth"
  THEN IF TruthyTok(oauthToken) THEN Bearer(oauthToken) ELSE EmptyHeaders
  ELSE EmptyHeaders

\* getWebhookAuthHeaders, given what getValidOAuthToken returned
getWebhookAuthHeaders(user, oauthToken) ==
  IF user.id = 0 \/ ~TruthyStr(user.webhook_auth_type) \/ user.webhook_auth_type = "none"
  THEN EmptyHeaders
  ELSE IF user.webhook_auth_type = "basic"
  THEN IF TruthyStr(user.webhook_auth_username) /\ TruthyStr(user.webhook_auth_password)
       THEN Basic(user.webhook_auth_username, user.webhook_auth_password)
       ELSE EmptyHeaders
  ELSE IF user.webhook_auth_type = "bearer"
  THEN IF TruthyTok(user.webhook_auth_token)
       THEN Bearer(user.webhook_auth_token)
       ELSE EmptyHeaders
  ELSE IF user.webhook_auth_type = "oauth"
  THEN IF TruthyTok(oauthToken) THEN Bearer(oauthToken) ELSE EmptyHeaders
  ELSE EmptyHeaders

(* ------------------------------ db.ts ---------------------------------- *)

\* SELECT * FROM users WHERE username = ?
getUserByUsername(table, username) ==
  IF username \in DOMAIN table THEN table[username] ELSE NoUser

\* variant: the UPDATE has no WHERE clause
updateUserWebhookAuth_allRows(table, userId, authConfig) ==
  [n \in DOMAIN table |->
     [f \in DOMAIN table[n] |->
        IF f \in DOMAIN authConfig THEN authConfig[f] ELSE table[n][f]]]

\* variant: the expiration column is left out of the UPDATE
updateUserWebhookAuth_noExpiration(table, userId, authConfig) ==
  [n \in DOMAIN table |->
     IF table[n].id = userId
     THEN [f \in DOMAIN table[n] |->
             IF f \in DOMAIN authConfig /\ f # "webhook_auth_token_expiration"
             THEN authConfig[f] ELSE table[n][f]]
     ELSE table[n]]

\* UPDATE users SET <the fields of authConfig> WHERE id = ?
updateUserWebhookAuth(table, userId, authConfig) ==
  [n \in DOMAIN table |->
     IF table[n].id = userId
     THEN [f \in DOMAIN table[n] |->
             IF f \in DOMAIN authConfig THEN authConfig[f] ELSE table[n][f]]
     ELSE table[n]]

\* UPDATE users SET callback_url = ? WHERE id = ?
updateUserCallbackUrl(table, userId, callbackUrl) ==
  [n \in DOMAIN table |->
     IF table[n].id = userId
     THEN [table[n] EXCEPT !.callback_url = callbackUrl]
     ELSE table[n]]

(* ------------------------- auth.middleware.ts -------------------------- *)

\* the virtual admin user basicAuthMiddleware puts into the context
VirtualAdmin == [NoUser EXCEPT !.id = -1, !.username = AdminUser, !.is_admin = 1]

\* c.get("user") of a request with valid credentials of login name
basicAuthMiddleware(table, name) ==
  IF name = AdminUser THEN VirtualAdmin ELSE getUserByUsername(table, name)

(* ----------------------------- index.ts -------------------------------- *)

\* variant: the session name is looked up the way a login name is
getUserForSession_login(table, sessionName) == basicAuthMiddleware(table, sessionName)

\* variant: every session of a known tenant resolves to the first tenant
getUserForSession_first(table, sessionName) ==
  IF sessionName \in DOMAIN table THEN table["alice"] ELSE NoUser

\* const user = userDb.getUserByUsername(sessionName); return user || null
getUserForSession(table, sessionName) == getUserByUsername(table, sessionName)

\* variant: no recipient counts as a broadcast
IncludesBroadcast_never(remoteJid) == FALSE

\* message.key.remoteJid?.includes("broadcast")
IncludesBroadcast(remoteJid) ==
  remoteJid \in {"status@broadcast", "123@broadcast"}

\* a || b on strings
OrStr(a, b) == IF TruthyStr(a) THEN a ELSE b

\* variant: the image caption is tried before the plain text
MessageText_captionFirst(m) ==
  OrStr(m.imageCaption,
  OrStr(m.conversation,
  OrStr(m.extendedText,
  OrStr(m.videoCaption,
  OrStr(m.documentCaption,
  OrStr(m.contactDisplayName,
  OrStr(m.locationComment,
  OrStr(m.liveLocationCaption, NULL))))))))

\* message.message?.conversation || ... || null
MessageText(m) ==
  OrStr(m.conversation,
  OrStr(m.extendedText,
  OrStr(m.imageCaption,
  OrStr(m.videoCaption,
  OrStr(m.documentCaption,
  OrStr(m.contactDisplayName,
  OrStr(m.locationComment,
  OrStr(m.liveLocationCaption, NULL))))))))

NoMedia == [image |-> NULL, video |-> NULL, document |-> NULL, audio |-> NULL]

\* the body of a message webhook
MessageBody(msg) ==
  [session |-> msg.sessionId, from |-> msg.remoteJid, messageId |-> msg.id,
   message |-> MessageText(msg.message), media |-> NoMedia]

\* the body of a session webhook
SessionBody(sessionName, status) == [session |-> sessionName, status |-> status]

NoBody == [f \in {} |-> NULL]

\* variant: the error is logged and thrown again
sendWebhookWithAuth_rethrow(outcome) == "rejected"

\* sendWebhookWithAuth: catch (error) { console.error(...) }
sendWebhookWithAuth_catch(outcome) == "resolved"

\* headers = {"Content-Type": "application/json"}; Object.assign(headers, authHeaders)
PostHeaders(authHeaders) == authHeaders @@ ("Content-Type" :> "application/json")

\* variant: the request is sent a second time
IssuePost_twice(ev, headers, hang) ==
  LET post == [url |-> ev.url, headers |-> PostHeaders(headers), body |-> ev.body]
  IN  [ev EXCEPT !.posts = Append(Append(@, post), post),
                 !.pc = "post", !.hang = hang]

\* axios.post(url, body, {headers})
IssuePost(ev, headers, hang) ==
  [ev EXCEPT !.posts = Append(@, [url |-> ev.url, headers |-> PostHeaders(headers),
                                  body |-> ev.body]),
             !.pc = "post", !.hang = hang]

\* sendWebhookWithAuth(url, body, user) up to its first pending request
SendBegin(ev, url, user, phase, hang, t) ==
  LET e1 == [ev EXCEPT !.url = url, !.phase = phase]
  IN  IF NeedsFetch(user, t)
      THEN [e1 EXCEPT !.tokenRequests = Append(@, TokenRequest(user)),
                      !.pc = "fetch", !.hang = hang]
      ELSE IssuePost(e1, getWebhookAuthHeaders(user, CachedOAuthToken(user)), hang)

\* where the legacy copy of an event goes
LegacyEndpoint(ev, base) == IF ev.kind = "session" THEN base \o "/session" ELSE base

\* variant: the legacy copy is sent with the tenant's auth configuration
LegacyUser_tenant(ev) == ev.user

\* the user argument of the legacy send: sendWebhookWithAuth(..., body, null)
LegacyUser(ev) == NoUser

\* the handler after its first sendWebhookWithAuth has settled
\* (env.WEBHOOK_BASE_URL of the step is passed as base)
AfterSend(ev, settled, base, hang, t) ==
  IF settled # "resolved"
  THEN [ev EXCEPT !.pc = "rejected", !.hang = FALSE]
  ELSE IF ev.phase = "tenant" /\ TruthyStr(base)
  THEN SendBegin(ev, LegacyEndpoint(ev, base), LegacyUser(ev), "legacy", hang, t)
  ELSE [ev EXCEPT !.pc = "done", !.hang = FALSE]

NewEvent(kind, sessionName, status) ==
  [kind |-> kind, session |-> sessionName, status |-> status,
   filtered |-> FALSE, user |-> NoUser,
   gen |-> 0, phase |-> "none", pc |-> "done", hang |-> FALSE, url |-> NULL,
   body |-> NoBody, posts |-> <<>>, tokenRequests |-> <<>>, answer |-> NoAnswer,
   errors |-> <<>>, removedQR |-> FALSE, storedAt |-> Absent]

\* variant: the delivery is attempted whether or not a callback URL is set
Dispatch_noGuard(ev, table, gens, endpointSuffix, body, hang, t) ==
  LET user == getUserForSession(table, ev.session)
      callbackUrl == user.callback_url
  IN  SendBegin([ev EXCEPT !.user = user, !.gen = 0, !.body = body],
                callbackUrl \o endpointSuffix, user, "tenant", hang, t)

\* the handler from the tenant lookup to its first pending request
Dispatch(ev, table, gens, endpointSuffix, body, hang, t) ==
  LET user == getUserForSession(table, ev.session)
      callbackUrl == user.callback_url
  IN  IF ~TruthyStr(callbackUrl)
      THEN [ev EXCEPT !.user = user]
      ELSE SendBegin([ev EXCEPT !.user = user, !.gen = gens[ev.session], !.body = body],
                     callbackUrl \o endpointSuffix, user, "tenant", hang, t)

\* variant: message webhooks go to a sub-path of the callback URL
MessageSuffix_message == "/message"

\* const endpoint = `${callbackUrl}`
MessageSuffix == ""

\* whastapp.onMessageReceived(async (message) => ...)
MessageArrives(msg, hang) ==
  /\ LET ev == NewEvent("message", msg.sessionId, NULL)
     IN  events' = Append(events,
           IF msg.fromMe \/ IncludesBroadcast(msg.remoteJid)
           THEN [ev EXCEPT !.filtered = TRUE]
           ELSE Dispatch(ev, users, cfgGen, MessageSuffix, MessageBody(msg), hang, now))
  /\ ret' = [op |-> "message", msg |-> msg]
  /\ UNCHANGED <<sessions, now, users, cfgGen, legacyUrl, qrCodes, lastStore, nupd>>

\* a message event, while fewer than MaxEvents events have been handled
onMessageReceived(msg, hang) ==
  /\ Len(events) < MaxEvents
  /\ MessageArrives(msg, hang)

\* a further message event of a session, after the token request of an
\* earlier handler of that session has failed
onMessageReceivedAfterFailure(msg, hang) ==
  /\ Len(events) < MaxEvents + 1
  /\ \E i \in DOMAIN events :
       /\ events[i].session = msg.sessionId
       /\ events[i].errors # <<>> /\ events[i].errors[1] = "token"
  /\ MessageArrives(msg, hang)

\* a further message event of a session, after an earlier handler of that
\* session has fetched and stored a token
onMessageReceivedAfterRefresh(msg, hang) ==
  /\ Len(events) < MaxEvents + 1
  /\ \E i \in DOMAIN events :
       events[i].session = msg.sessionId /\ events[i].storedAt # Absent
  /\ MessageArrives(msg, hang)

\* a further message event of a session whose earlier handler is still
\* waiting for the token endpoint
onMessageReceivedDuringFetch(msg, hang) ==
  /\ Len(events) < MaxEvents + 1
  /\ \E i \in DOMAIN events :
       events[i].session = msg.sessionId /\ events[i].pc = "fetch"
  /\ MessageArrives(msg, hang)

\* variant: session webhooks go to the callback URL itself
SessionSuffix_none == ""

\* const endpoint = `${callbackUrl}/session`
SessionSuffix == "/session"

\* sendSessionWebhook(sessionName, status), up to its first pending request
\* (removed: whether the caller deleted a QR entry just before)
sendSessionWebhook(sessionName, status, hang, removed) ==
  events' = Append(events,
    Dispatch([NewEvent("session", sessionName, status) EXCEPT !.removedQR = removed],
             users, cfgGen, SessionSuffix, SessionBody(sessionName, status), hang, now))

\* whastapp.onConnected((session) => { qrStore.removeQR(session); sendSessionWebhook(...) })
onConnected(session, hang) ==
  /\ Len(events) < MaxEvents
  /\ qrCodes' = QRStore_removeQR(qrCodes, session)
  /\ lastStore' = [lastStore EXCEPT ![session] = NoQR]
  /\ sendSessionWebhook(session, "connected", hang, qrCodes[session] # NoQR)
  /\ ret' = [op |-> "connected", session |-> session]
  /\ UNCHANGED <<sessions, now, users, cfgGen, legacyUrl, nupd>>

\* whastapp.onConnecting((session) => sendSessionWebhook(session, "connecting"))
onConnecting(session, hang) ==
  /\ Len(events) < MaxEvents
  /\ sendSessionWebhook(session, "connecting", hang, FALSE)
  /\ ret' = [op |-> "connecting", session |-> session]
  /\ UNCHANGED <<sessions, now, users, cfgGen, legacyUrl, qrCodes, lastStore, nupd>>

\* whastapp.onDisconnected((session) => sendSessionWebhook(session, "disconnected"))
onDisconnected(session, hang) ==
  /\ Len(events) < MaxEvents
  /\ sendSessionWebhook(session, "disconnected", hang, FALSE)
  /\ ret' = [op |-> "disconnected", session |-> session]
  /\ UNCHANGED <<sessions, now, users, cfgGen, legacyUrl, qrCodes, lastStore, nupd>>

\* the token endpoint answers the request of handler i: the rest of
\* getValidOAuthToken and getWebhookAuthHeaders, then axios.post
TokenResponse(i, resp, hang) ==
  /\ i \in 1..Len(events)
  /\ events[i].pc = "fetch"
  /\ ~events[i].hang
  /\ LET ev == events[i]
         r == fetchOAuthToken(resp)
         res == OAuthTokenResult(r)
         \* console.error("Failed to renew OAuth token ...")
         e1 == [ev EXCEPT !.answer = resp,
                          !.errors = IF r.ok THEN @ ELSE Append(@, "token"),
                          !.storedAt = IF r.ok THEN now ELSE @]
     IN  /\ users' = IF r.ok
                     THEN updateUserWebhookAuth(users, ev.user.id,
                            [webhook_auth_token |-> r.access_token,
                             webhook_auth_token_expiration |->
                               TokenExpiration(r.expires_in, now)])
                     ELSE users
         /\ events' = [events EXCEPT ![i] =
              IF res.threw
              THEN AfterSend([e1 EXCEPT !.errors = Append(@, e1.url)],
                             sendWebhookWithAuth_catch("error"), legacyUrl, hang, now)
              ELSE IssuePost(e1, getWebhookAuthHeaders(ev.user, res.token), hang)]
  /\ ret' = NoRet
  /\ UNCHANGED <<sessions, now, cfgGen, legacyUrl, qrCodes, lastStore, nupd>>

PostOutcomes == {"2xx", "non2xx", "error"}

\* the webhook endpoint answers (or the connection fails): the rest of
\* sendWebhookWithAuth, then the rest of the handler
PostResponse(i, outcome, hang) ==
  /\ i \in 1..Len(events)
  /\ events[i].pc = "post"
  /\ ~events[i].hang
  /\ events' = [events EXCEPT ![i] =
       IF outcome = "2xx"
       THEN AfterSend(events[i], "resolved", legacyUrl, hang, now)
       \* console.error(`Failed to send webhook to ${url}:`, ...)
       ELSE AfterSend([events[i] EXCEPT !.errors = Append(@, events[i].url)],
                      sendWebhookWithAuth_catch(outcome), legacyUrl, hang, now)]
  /\ ret' = NoRet
  /\ UNCHANGED <<sessions, now, users, cfgGen, legacyUrl, qrCodes, lastStore, nupd>>

(* --------------------------- dashboard.ts ------------------------------ *)

\* variant: the cached token and its expiration are left as they are
WebhookAuthUpdates_noreset(payload) ==
  LET optional == {"webhook_auth_username", "webhook_auth_password",
                   "webhook_auth_token_url", "webhook_auth_token",
                   "webhook_oauth_format"}
  IN  [f \in (DOMAIN payload \cap optional) |-> payload[f]]
        @@ [webhook_auth_type |-> payload.webhook_auth_type]

\* PUT /dashboard/webhook-auth: the object handed to updateUserWebhookAuth
WebhookAuthUpdates(payload) ==
  LET optional == {"webhook_auth_username", "webhook_auth_password",
                   "webhook_auth_token_url", "webhook_auth_token",
                   "webhook_oauth_format"}
      reset == [webhook_auth_type |-> payload.webhook_auth_type,
                webhook_auth_token |-> NoToken,
                webhook_auth_token_expiration |-> Absent]
  IN  [f \in (DOMAIN payload \cap optional) |-> payload[f]] @@ reset

\* app.put("/webhook-auth", ...) for the logged-in user name
putWebhookAuth(name, payload) ==
  /\ nupd < MaxUpdates
  /\ LET user == basicAuthMiddleware(users, name)
     IN  /\ user.id # 0
         /\ user.is_admin # 1
         /\ users' = updateUserWebhookAuth(users, user.id, WebhookAuthUpdates(payload))
  /\ cfgGen' = [cfgGen EXCEPT ![name] = @ + 1]
  /\ nupd' = nupd + 1
  /\ ret' = [op |-> "putWebhookAuth", user |-> name, payload |-> payload,
             before |-> basicAuthMiddleware(users, name)]
  /\ UNCHANGED <<sessions, now, legacyUrl, qrCodes, lastStore, events>>

\* app.put("/callback", ...) for the logged-in user name
putCallback(name, callbackUrl) ==
  /\ nupd < MaxUpdates
  /\ LET user == basicAuthMiddleware(users, name)
     IN  /\ user.id # 0
         /\ user.is_admin # 1
         /\ users' = updateUserCallbackUrl(users, user.id, callbackUrl)
  /\ nupd' = nupd + 1
  /\ ret' = NoRet
  /\ UNCHANGED <<sessions, now, cfgGen, legacyUrl, qrCodes, lastStore, events>>

(* ------------------------ session.ts, QR routes ------------------------ *)

\* startSession(..., { onQRUpdated(qr) { qrStore.storeQR(sessionName, qr) } })
onQRUpdated(sessionName, qr) ==
  /\ qrCodes' = QRStore_storeQR(qrCodes, sessionName, qr, now)
  /\ lastStore' = [lastStore EXCEPT ![sessionName] = [qr |-> qr, timestamp |-> now]]
  /\ ret' = [op |-> "storeQR", session |-> sessionName, qr |-> qr,
             replaced |-> qrCodes[sessionName]]
  /\ UNCHANGED <<sessions, now, users, cfgGen, legacyUrl, events, nupd>>

\* app.get("/:session/qr"): const qr = qrStore.getQR(sessionName)
getSessionQR(sessionName) ==
  /\ ret' = [op |-> "getQR", session |-> sessionName,
             value |-> QRStore_getQR(qrCodes, sessionName, now)]
  /\ qrCodes' = QRStore_afterGetQR(qrCodes, sessionName, now)
  /\ UNCHANGED <<sessions, now, users, cfgGen, legacyUrl, lastStore, events, nupd>>

\* a call of qrStore.removeQR(sessionName)
removeQR(sessionName) ==
  /\ qrCodes' = QRStore_removeQR(qrCodes, sessionName)
  /\ lastStore' = [lastStore EXCEPT ![sessionName] = NoQR]
  /\ ret' = [op |-> "removeQR", session |-> sessionName,
             removed |-> qrCodes[sessionName]]
  /\ UNCHANGED <<sessions, now, users, cfgGen, legacyUrl, events, nupd>>

\* a call of qrStore.clearExpired()
clearExpired ==
  /\ qrCodes' = QRStore_clearExpired(qrCodes, now)
  /\ ret' = [op |-> "clearExpired",
             removed |-> {s \in Sessions : qrCodes[s] # NoQR /\ qrCodes'[s] = NoQR}]
  /\ UNCHANGED <<sessions, now, users, cfgGen, legacyUrl, lastStore, events, nupd>>

\* variant: every authenticated user may read every session
SessionAccessDenied_never(user, sessionName) == FALSE

\* if (user.is_admin !== 1 && sessionName !== user.username) throw 403
SessionAccessDenied(user, sessionName) ==
  user.is_admin # 1 /\ sessionName # user.username

\* app.get("/:session/qr") by caller; connected: whether
\* whatsapp.getSession(sessionName)?.user is set
getSessionQRRoute(caller, sessionName, connected) ==
  /\ LET user == basicAuthMiddleware(users, caller)
         qr == QRStore_getQR(qrCodes, sessionName, now)
     IN  /\ user.id # 0
         /\ connected => sessionName \in sessions
         /\ IF SessionAccessDenied(user, sessionName)
            THEN /\ ret' = [op |-> "/session/:session/qr", caller |-> caller,
                            session |-> sessionName, status |-> 403, value |-> NULL]
                 /\ qrCodes' = qrCodes
            ELSE /\ ret' = [op |-> "/session/:session/qr", caller |-> caller,
                            session |-> sessionName,
                            status |-> IF qr # NULL THEN 200
                                       ELSE IF connected THEN 400 ELSE 404,
                            value |-> qr]
                 /\ qrCodes' = QRStore_afterGetQR(qrCodes, sessionName, now)
  /\ UNCHANGED <<sessions, now, users, cfgGen, legacyUrl, lastStore, events, nupd>>

\* app.get("/:session/status") by caller
getSessionStatusRoute(caller, sessionName) ==
  /\ LET user == basicAuthMiddleware(users, caller)
         qr == QRStore_getQR(qrCodes, sessionName, now)
     IN  /\ user.id # 0
         /\ IF SessionAccessDenied(user, sessionName)
            THEN /\ ret' = [op |-> "/session/:session/status", caller |-> caller,
                            session |-> sessionName, status |-> 403,
                            exists |-> FALSE, has_qr |-> FALSE]
                 /\ qrCodes' = qrCodes
            ELSE /\ ret' = [op |-> "/session/:session/status", caller |-> caller,
                            session |-> sessionName, status |-> 200,
                            exists |-> sessionName \in sessions,
                            has_qr |-> qr # NULL]
                 /\ qrCodes' = QRStore_afterGetQR(qrCodes, sessionName, now)
  /\ UNCHANGED <<sessions, now, users, cfgGen, legacyUrl, lastStore, events, nupd>>

\* app.all("/logout") and app.post("/disconnect-session"): qrStore.removeQR
logout(sessionName) ==
  /\ qrCodes' = QRStore_removeQR(qrCodes, sessionName)
  /\ lastStore' = [lastStore EXCEPT ![sessionName] = NoQR]
  /\ ret' = NoRet
  /\ UNCHANGED <<sessions, now, users, cfgGen, legacyUrl, events, nupd>>

\* app.post("/start") and app.get("/start") of the session routes: any
\* authenticated user passes
SessionStartAllowed(user) == user.id # 0

\* app.post("/start"), app.get("/start") of the session routes, up to
\* whatsapp.startSession(sessionName, ...): sessionName = user.username
postSessionStart(caller) ==
  /\ LET user == basicAuthMiddleware(users, caller)
         sessionName == user.username
     IN  /\ SessionStartAllowed(user)
         /\ sessionName \notin sessions
         /\ sessions' = sessions \cup {sessionName}
         /\ ret' = [op |-> "/session/start", caller |-> caller,
                    session |-> sessionName]
  /\ UNCHANGED <<now, users, cfgGen, legacyUrl, qrCodes, lastStore, events, nupd>>

\* app.post("/start-session") of the dashboard, up to whatsapp.startSession
postDashboardStartSession(caller) ==
  /\ LET user == basicAuthMiddleware(users, caller)
         sessionName == user.username
     IN  /\ user.id # 0
         /\ user.is_admin # 1
         /\ sessionName \notin sessions
         /\ sessions' = sessions \cup {sessionName}
         /\ ret' = [op |-> "/dashboard/start-session", caller |-> caller,
                    session |-> sessionName]
  /\ UNCHANGED <<now, users, cfgGen, legacyUrl, qrCodes, lastStore, events, nupd>>

\* app.all("/logout") of the session routes, by caller for sessionParam
allSessionLogout(caller, sessionParam) ==
  /\ LET user == basicAuthMiddleware(users, caller)
     IN  /\ user.id # 0
         /\ user.is_admin = 1 \/ sessionParam = user.username
  /\ sessions' = sessions \ {sessionParam}
  /\ qrCodes' = QRStore_removeQR(qrCodes, sessionParam)
  /\ lastStore' = [lastStore EXCEPT ![sessionParam] = NoQR]
  /\ ret' = [op |-> "/session/logout", caller |-> caller, session |-> sessionParam,
             removed |-> qrCodes[sessionParam]]
  /\ UNCHANGED <<now, users, cfgGen, legacyUrl, events, nupd>>

\* app.post("/disconnect-session") of the dashboard
postDisconnectSession(caller) ==
  /\ LET user == basicAuthMiddleware(users, caller)
         sessionName == user.username
     IN  /\ user.id # 0
         /\ user.is_admin # 1
         /\ sessions' = sessions \ {sessionName}
         /\ qrCodes' = QRStore_removeQR(qrCodes, sessionName)
         /\ lastStore' = [lastStore EXCEPT ![sessionName] = NoQR]
         /\ ret' = [op |-> "/dashboard/disconnect-session", caller |-> caller,
                    session |-> sessionName, removed |-> qrCodes[sessionName]]
  /\ UNCHANGED <<now, users, cfgGen, legacyUrl, events, nupd>>

\* the clock advances, up to limit
Tick(limit) ==
  /\ now < limit
  /\ now' = now + 1
  /\ ret' = NoRet
  /\ UNCHANGED <<sessions, users, cfgGen, legacyUrl, qrCodes, lastStore, events, nupd>>

(* --------------------------- inputs, Init ------------------------------ *)

OAuthRow(name, token, expiration) ==
  [NewUser(name) EXCEPT !.callback_url = CallbackOf(name),
     !.webhook_auth_type = "oauth", !.webhook_auth_username = "u1",
     !.webhook_auth_password = "p1", !.webhook_auth_token_url = TokenUrl,
     !.webhook_auth_token = token, !.webhook_auth_token_expiration = expiration]

BasicRow(name) ==
  [NewUser(name) EXCEPT !.callback_url = CallbackOf(name),
     !.webhook_auth_type = "basic", !.webhook_auth_username = "u1",
     !.webhook_auth_password = "p1"]

BearerRow(name) ==
  [NewUser(name) EXCEPT !.callback_url = CallbackOf(name),
     !.webhook_auth_type = "bearer", !.webhook_auth_token = StaticToken]

\* rows an earlier run of the gateway can have left in the users table
StoredRows(name) ==
  IF name = "alice"
  THEN { NewUser(name),
         [NewUser(name) EXCEPT !.callback_url = CallbackOf(name)],
         OAuthRow(name, NoToken, Absent),
         OAuthRow(name, IssuedToken(0, 0), bufferTime),
         OAuthRow(name, IssuedToken(0, 0), 2 * bufferTime) }
  ELSE { BasicRow(name), BearerRow(name) }

BearerPayload == [webhook_auth_type |-> "bearer", webhook_auth_token |-> StaticToken]

\* request bodies of PUT /dashboard/webhook-auth
Payloads ==
  { [webhook_auth_type |-> "none"],
    BearerPayload,
    [webhook_auth_type |-> "oauth", webhook_auth_username |-> "u2",
     webhook_auth_password |-> "p2", webhook_auth_token_url |-> TokenUrl] }

NoContent ==
  [conversation |-> NULL, extendedText |-> NULL, imageCaption |-> NULL,
   videoCaption |-> NULL, documentCaption |-> NULL, contactDisplayName |-> NULL,
   locationComment |-> NULL, liveLocationCaption |-> NULL]

\* message.message of the events tried
Contents == { [NoContent EXCEPT !.conversation = "hello"] }

\* the MessageReceived events tried
Messages ==
  { [sessionId |-> s, fromMe |-> FALSE, remoteJid |-> "5511@s.whatsapp.net",
     id |-> "m1", message |-> c] : s \in Tenants \cup {"ghost"}, c \in Contents }
  \cup
  { [sessionId |-> "alice", fromMe |-> f, remoteJid |-> j, id |-> "m1", message |-> c] :
      f \in BOOLEAN, j \in {"5511@s.whatsapp.net", "status@broadcast"},
      c \in Contents }

\* what the token endpoint can answer when it issues token tok
TokenResponses(tok) ==
  { [net |-> "error", data |-> NoTokenData],
    [net |-> "non2xx", data |-> NoTokenData],
    [net |-> "ok", data |-> NoTokenData],
    [net |-> "ok", data |-> [NoTokenData EXCEPT !.token = tok, !.expiresIn = 2]] }
  \cup
  { [net |-> "ok", data |-> [NoTokenData EXCEPT !.access_token = tok, !.expires_in = x]] :
      x \in {Absent, 0, 2 * bufferTime} }

\* the state after start-up, with the row of tenant n drawn from rows[n]
InitFrom(rows) ==
  /\ now = 0
  /\ users \in [Tenants -> UNION {rows[n] : n \in Tenants}]
  /\ \A n \in Tenants : users[n] \in rows[n]
  /\ cfgGen = [n \in Tenants |-> 0]
  /\ legacyUrl \in {NULL, LegacyUrl}
  /\ qrCodes = [s \in Sessions |-> NoQR]
  /\ lastStore = [s \in Sessions |-> NoQR]
  /\ events = <<>>
  /\ nupd = 0
  /\ sessions = {}
  /\ ret = NoRet

Init == InitFrom([n \in Tenants |-> StoredRows(n)])

\* the event handlers and the answers they wait for
\* (hangs: whether a request the step issues is one that is never answered)
Handlers(hangs) ==
  \/ \E msg \in Messages, hang \in hangs : onMessageReceived(msg, hang)
  \/ \E s \in {"alice", "ghost"}, hang \in hangs : onConnected(s, hang)
  \/ \E s \in {"alice"}, hang \in hangs : onConnecting(s, hang)
  \/ \E s \in {"alice"}, hang \in hangs : onDisconnected(s, hang)
  \/ \E i \in DOMAIN events, hang \in hangs :
       \E resp \in TokenResponses(IssuedToken(events[i].gen, i)) :
         TokenResponse(i, resp, hang)
  \/ \E i \in DOMAIN events, o \in PostOutcomes, hang \in hangs :
       PostResponse(i, o, hang)

Next ==
  \/ Handlers({FALSE})
  \/ Tick(MaxClock)

Spec == Init /\ [][Next]_vars

(* ------------- dispatch while the dashboard is being used -------------- *)

\* the tenant whose dashboard requests are tried
Editors == {"alice"}

InitEdit ==
  /\ Init
  /\ users["bob"] = BasicRow("bob")
  /\ users["alice"] \in {OAuthRow("alice", NoToken, Absent),
                         OAuthRow("alice", IssuedToken(0, 0), 2 * bufferTime)}

NextEdit ==
  \/ \E msg \in Messages : msg.sessionId \in Editors /\ onMessageReceived(msg, FALSE)
  \/ \E i \in DOMAIN events :
       \E resp \in TokenResponses(IssuedToken(events[i].gen, i)) :
         TokenResponse(i, resp, FALSE)
  \/ \E i \in DOMAIN events, o \in PostOutcomes : PostResponse(i, o, FALSE)
  \/ \E n \in Editors, p \in Payloads : putWebhookAuth(n, p)
  \/ \E n \in Editors, u \in {NULL} : putCallback(n, u)
  \/ Tick(MaxClock)

SpecEdit == InitEdit /\ [][NextEdit]_vars

(* ---------------- session routes used by admin and tenant -------------- *)

\* the login names of the requests tried
Callers == {AdminUser, "alice"}

\* the message the protocol layer reports for session s
MessageFor(s) ==
  [sessionId |-> s, fromMe |-> FALSE, remoteJid |-> "5511@s.whatsapp.net",
   id |-> "m1", message |-> [NoContent EXCEPT !.conversation = "hello"]]

\* a text message to the session of alice
AliceMessage == MessageFor("alice")

InitAdmin ==
  /\ Init
  /\ legacyUrl = NULL
  /\ users["alice"] \in {NewUser("alice"),
                         [NewUser("alice") EXCEPT !.callback_url = CallbackOf("alice")]}
  /\ users["bob"] = BasicRow("bob")

NextAdmin ==
  \/ \E c \in Callers : postSessionStart(c)
  \/ \E c \in Callers : postDashboardStartSession(c)
  \/ \E c \in Callers, s \in Sessions : allSessionLogout(c, s)
  \/ \E c \in Callers : postDisconnectSession(c)
  \/ \E c \in Callers : putCallback(c, CallbackOf("alice"))
  \/ \E c \in Callers : putWebhookAuth(c, BearerPayload)
  \/ \E s \in sessions, qr \in QRs : onQRUpdated(s, qr)
  \/ \E s \in sessions : onConnected(s, FALSE)
  \/ \E s \in sessions : onMessageReceived(MessageFor(s), FALSE)
  \/ \E i \in DOMAIN events, o \in PostOutcomes : PostResponse(i, o, FALSE)

SpecAdmin == InitAdmin /\ [][NextAdmin]_vars

(* --------------- header resolution over tenant configurations ---------- *)

\* values of webhook_auth_username and webhook_auth_password tried
Credentials(v) == {NULL, "", v}

\* rows of type basic, with each credential set, empty or null
BasicRows(name) ==
  { [BasicRow(name) EXCEPT !.webhook_auth_username = u, !.webhook_auth_password = pw] :
      u \in Credentials("u1"), pw \in Credentials("p1") }

\* a cached token with more than bufferTime left at every time of the model
FreshOAuthRow(name) == OAuthRow(name, IssuedToken(0, 0), MaxClock + bufferTime + 1)

\* rows of type oauth with the username, the password or the token URL
\* null or empty, without and with a cached token
UnconfiguredOAuthRows(name) ==
  { [r EXCEPT ![f] = v] :
      r \in {OAuthRow(name, NoToken, Absent), FreshOAuthRow(name)},
      f \in {"webhook_auth_username", "webhook_auth_password",
             "webhook_auth_token_url"},
      v \in {NULL, ""} }

\* the rows header resolution is tried on
HeaderRows(name) ==
  IF name = "alice"
  THEN BasicRows(name) \cup UnconfiguredOAuthRows(name) \cup {FreshOAuthRow(name)}
  ELSE {BearerRow(name)}

InitHeaders ==
  /\ InitFrom([n \in Tenants |-> HeaderRows(n)])
  /\ legacyUrl = NULL

NextHeaders ==
  \/ \E msg \in Messages : onMessageReceived(msg, FALSE)
  \/ \E s \in {"alice"} : onConnected(s, FALSE)
  \/ \E s \in {"alice"} : onConnecting(s, FALSE)
  \/ \E s \in {"alice"} : onDisconnected(s, FALSE)
  \/ \E i \in DOMAIN events, o \in PostOutcomes : PostResponse(i, o, FALSE)
  \/ Tick(MaxClock)

SpecHeaders == InitHeaders /\ [][NextHeaders]_vars

(* ------------- concurrent dispatches of one oauth tenant --------------- *)

\* oauth rows whose cached token is absent or expires within the buffer
StaleRows(name) ==
  IF name = "alice"
  THEN { OAuthRow(name, NoToken, Absent),
         OAuthRow(name, IssuedToken(0, 0), bufferTime - 1) }
  ELSE { BasicRow(name) }

InitRace ==
  /\ InitFrom([n \in Tenants |-> StaleRows(n)])
  /\ legacyUrl = NULL

NextRace ==
  \/ onMessageReceived(AliceMessage, FALSE)
  \/ onMessageReceivedDuringFetch(AliceMessage, FALSE)
  \/ \E i \in DOMAIN events :
       \E resp \in TokenResponses(IssuedToken(events[i].gen, i)) :
         TokenResponse(i, resp, FALSE)
  \/ \E i \in DOMAIN events, o \in PostOutcomes : PostResponse(i, o, FALSE)
  \/ Tick(MaxClock)

SpecRace == InitRace /\ [][NextRace]_vars

(* ------------------- dispatch after a failed fetch --------------------- *)

NextRetry ==
  \/ onMessageReceived(AliceMessage, FALSE)
  \/ onMessageReceivedAfterFailure(AliceMessage, FALSE)
  \/ \E i \in DOMAIN events :
       \E resp \in TokenResponses(IssuedToken(events[i].gen, i)) :
         TokenResponse(i, resp, FALSE)
  \/ \E i \in DOMAIN events, o \in PostOutcomes : PostResponse(i, o, FALSE)
  \/ Tick(MaxClock)

SpecRetry == InitRace /\ [][NextRetry]_vars

(* ---------------------- short-lived tokens ----------------------------- *)

\* answers of a token endpoint whose tokens live no longer than the buffer
ShortLivedResponses(tok) ==
  { [net |-> "error", data |-> NoTokenData] }
  \cup
  { [net |-> "ok", data |-> [NoTokenData EXCEPT !.access_token = tok, !.expires_in = x]] :
      x \in 0..bufferTime }

InitShort ==
  /\ InitFrom([n \in Tenants |->
       IF n = "alice" THEN {OAuthRow(n, NoToken, Absent)} ELSE {BasicRow(n)}])
  /\ legacyUrl = NULL

NextShort ==
  \/ onMessageReceived(AliceMessage, FALSE)
  \/ onMessageReceivedAfterRefresh(AliceMessage, FALSE)
  \/ \E i \in DOMAIN events :
       \E resp \in ShortLivedResponses(IssuedToken(events[i].gen, i)) :
         TokenResponse(i, resp, FALSE)
  \/ \E i \in DOMAIN events, o \in PostOutcomes : PostResponse(i, o, FALSE)
  \/ Tick(MaxClock)

SpecShort == InitShort /\ [][NextShort]_vars

(* ------------------- the text of a message body ------------------------ *)

\* message.message of the events tried: at most two of the text fields
\* set, each to the empty string or to a text
TextContents ==
  { [f \in DOMAIN NoContent |-> IF f = a THEN x ELSE IF f = b THEN y ELSE NULL] :
      a \in DOMAIN NoContent, b \in DOMAIN NoContent,
      x \in {NULL, "", "first"}, y \in {"", "second"} }

\* the MessageReceived events tried (a key without remoteJid included)
TextMessages ==
  { [sessionId |-> "alice", fromMe |-> FALSE, remoteJid |-> j, id |-> "m1",
     message |-> c] : j \in {"5511@s.whatsapp.net", NULL}, c \in TextContents }

InitBody ==
  /\ InitFrom([n \in Tenants |-> {BasicRow(n)}])
  /\ legacyUrl = NULL

NextBody ==
  \/ \E msg \in TextMessages : onMessageReceived(msg, FALSE)
  \/ \E i \in DOMAIN events : PostResponse(i, "2xx", FALSE)

SpecBody == InitBody /\ [][NextBody]_vars

(* -------------- header resolution without credentials ------------------ *)

\* rows of type none, without a type and of type bearer, each without and
\* with a stored token
PlainRows(name) ==
  { [BearerRow(name) EXCEPT !.webhook_auth_type = t, !.webhook_auth_token = tok] :
      t \in {"none", NULL, "", "bearer"}, tok \in {NoToken, StaticToken} }

InitPlain ==
  InitFrom([n \in Tenants |-> IF n = "alice" THEN PlainRows(n) ELSE {BasicRow(n)}])

SpecPlain == InitPlain /\ [][NextHeaders]_vars

(* ------------------- shapes of the token response ---------------------- *)

\* the token the answer to request i carries in field number k
\* (1: access_token, 2: token, 3: data.token)
FieldToken(g, i, k) == IF k = 1 THEN IssuedToken(g, i) ELSE IssuedToken(g, 100 * k + i)

\* lifetimes in the snake-case and in the camel-case field
SnakeLifetime == 3
CamelLifetime == 2

\* success and data of the answer: no envelope, a complete one, one with
\* success false, one without data
Envelopes(tok) ==
  { [success |-> FALSE, present |-> FALSE, token |-> NoToken],
    [success |-> TRUE, present |-> TRUE, token |-> tok],
    [success |-> FALSE, present |-> TRUE, token |-> tok],
    [success |-> TRUE, present |-> FALSE, token |-> NoToken] }

\* answers of the token endpoint with every combination of the fields
\* fetchOAuthToken looks at
ShapedResponses(g, i) ==
  { [net |-> "error", data |-> NoTokenData] }
  \cup
  { [net |-> "ok",
     data |-> TokenData(at, tk, ei, eI, env.success, env.present, env.token,
                        IF env.present THEN ei ELSE Absent,
                        IF env.present THEN eI ELSE Absent)] :
      at \in {NoToken, FieldToken(g, i, 1)},
      tk \in {NoToken, FieldToken(g, i, 2)},
      env \in Envelopes(FieldToken(g, i, 3)),
      ei \in {Absent, SnakeLifetime},
      eI \in {Absent, CamelLifetime} }

InitParse ==
  /\ InitFrom([n \in Tenants |->
       IF n = "alice" THEN {OAuthRow(n, NoToken, Absent)} ELSE {BasicRow(n)}])
  /\ legacyUrl = NULL

NextParse ==
  \/ onMessageReceived(AliceMessage, FALSE)
  \/ \E i \in DOMAIN events :
       \E resp \in ShapedResponses(events[i].gen, i) : TokenResponse(i, resp, FALSE)
  \/ \E i \in DOMAIN events, o \in PostOutcomes : PostResponse(i, o, FALSE)
  \/ Tick(MaxClock)

SpecParse == InitParse /\ [][NextParse]_vars

(* ------------------- QR polling and connected events ------------------- *)

\* the sessions whose QR codes are stored and polled
QRSessions == {"alice", "ghost"}

InitQR ==
  /\ Init
  /\ legacyUrl = NULL
  /\ users["bob"] = BasicRow("bob")
  /\ users["alice"] \in {NewUser("alice"),
                         [NewUser("alice") EXCEPT !.callback_url = CallbackOf("alice")]}

NextQR ==
  \/ \E s \in QRSessions, qr \in QRs : onQRUpdated(s, qr)
  \/ \E s \in QRSessions : getSessionQR(s)
  \/ \E s \in QRSessions : logout(s)
  \/ \E s \in QRSessions : onConnected(s, FALSE)
  \/ \E i \in DOMAIN events, o \in PostOutcomes : PostResponse(i, o, FALSE)
  \/ Tick(MaxTime)

SpecQR == InitQR /\ [][NextQR]_vars

(* ---------------------- polling by several users ----------------------- *)

\* the login names of the polling requests and the sessions they ask for
Pollers == {AdminUser, "alice"}

PolledSessions == {"alice", "bob"}

InitPoll ==
  /\ InitFrom([n \in Tenants |-> {BasicRow(n)}])
  /\ legacyUrl = NULL

NextPoll ==
  \/ \E s \in PolledSessions, qr \in QRs : onQRUpdated(s, qr)
  \/ \E c \in Pollers, s \in PolledSessions : getSessionQRRoute(c, s, FALSE)
  \/ \E c \in Pollers, s \in PolledSessions : getSessionStatusRoute(c, s)
  \/ Tick(MaxTime)

SpecPoll == InitPoll /\ [][NextPoll]_vars

(* ------------------------ QR store with sweeps ------------------------- *)

NextSweep ==
  \/ \E s \in QRSessions, qr \in QRs : onQRUpdated(s, qr)
  \/ \E s \in QRSessions : getSessionQR(s)
  \/ \E s \in QRSessions : removeQR(s)
  \/ clearExpired
  \/ Tick(MaxTime)

SpecSweep == InitPoll /\ [][NextSweep]_vars

(* --------------- dispatch with endpoints that never answer ------------- *)

InitLive ==
  /\ Init
  /\ legacyUrl = LegacyUrl
  /\ users["bob"] = BasicRow("bob")
  /\ users["alice"] \in {[NewUser("alice") EXCEPT !.callback_url = CallbackOf("alice")],
                         OAuthRow("alice", NoToken, Absent)}

NextLive ==
  \/ Handlers(BOOLEAN)
  \/ Tick(MaxClock)

\* an answer that has arrived is handled: the continuation of the await runs
Answered(i) ==
  /\ i \in DOMAIN events
  /\ \E hang \in BOOLEAN :
       \/ \E resp \in TokenResponses(IssuedToken(events[i].gen, i)) :
            TokenResponse(i, resp, hang)
       \/ \E o \in PostOutcomes : PostResponse(i, o, hang)

FairSpec ==
  InitLive /\ [][NextLive]_vars /\ \A i \in 1..MaxEvents : WF_vars(Answered(i))

(* ============================ properties =============================== *)

\* the URL the tenant copy of the event of handler ev goes to
TenantEndpoint(ev) ==
  IF ev.kind = "session" THEN ev.user.callback_url \o "/session" ELSE ev.user.callback_url

HasAuthorization(post) == "Authorization" \in DOMAIN post.headers

JsonOnly == "Content-Type" :> "application/json"

\* the POSTs handler i issues in the current step
NewPosts(i) ==
  LET before == IF i \in DOMAIN events THEN Len(events[i].posts) ELSE 0
  IN  SubSeq(events'[i].posts, before + 1, Len(events'[i].posts))

\* the handlers that start in the current step
Started == DOMAIN events' \ DOMAIN events

\* handler ev is neither waiting for a token nor for the answer to a POST
Settled(ev) == ev.pc \notin {"fetch", "post"}

(* ------------------------------- C1 ------------------------------------ *)

C1_RecordFresh ==
  \A n \in Tenants :
    users[n].webhook_auth_token.kind = "oauth"
      => users[n].webhook_auth_token.gen = cfgGen[n]

C1_PostFresh ==
  \A i \in DOMAIN events' :
    \A k \in DOMAIN NewPosts(i) :
      LET p == NewPosts(i)[k]
      IN  (/\ HasAuthorization(p)
           /\ p.headers["Authorization"].scheme = "Bearer"
           /\ p.headers["Authorization"].credentials.kind = "oauth")
          => p.headers["Authorization"].credentials.gen = cfgGen'[events'[i].session]

\* C1: once a webhook-auth update of a tenant has completed, the tenant
\* record never holds an OAuth token obtained with the credentials of an
\* earlier configuration, and no POST issued from then on carries one.
C1_NoStaleToken == []C1_RecordFresh /\ [][C1_PostFresh]_vars

(* ------------------------------- C2 ------------------------------------ *)

\* C2: with a legacy URL configured, every event that passes the
\* self-sent/broadcast filter has been POSTed to the legacy destination by
\* the time its handler completes, whatever the tenant lookup returned.
C2_LegacyAlwaysPosted ==
  \A i \in DOMAIN events :
    LET ev == events[i]
    IN  (TruthyStr(legacyUrl) /\ ~ev.filtered /\ ev.pc = "done")
        => \E k \in DOMAIN ev.posts : ev.posts[k].url = LegacyEndpoint(ev, legacyUrl)

(* ------------------------------- C3 ------------------------------------ *)

\* C3: for an event whose tenant has a callback URL, with a legacy URL
\* configured, the handler issues the tenant POST first and at most two
\* POSTs, and when it has settled it has issued exactly two, with the same
\* body: one to the tenant destination and one to the legacy destination,
\* whatever the outcome of the token request and of either POST.
C3_TwoPosts ==
  \A i \in DOMAIN events :
    LET ev == events[i]
    IN  (ev.user.id # 0 /\ TruthyStr(ev.user.callback_url) /\ TruthyStr(legacyUrl))
        => /\ Len(ev.posts) <= 2
           /\ Len(ev.posts) >= 1 => ev.posts[1].url = TenantEndpoint(ev)
           /\ Settled(ev) =>
                /\ Len(ev.posts) = 2
                /\ ev.posts[2].url = LegacyEndpoint(ev, legacyUrl)
                /\ ev.posts[1].body = ev.posts[2].body
                /\ ev.posts[1].body.session = ev.session

\* a handler that has sent both copies although the tenant delivery failed
C3_FailedTenantThenLegacy ==
  \E i \in DOMAIN events :
    LET ev == events[i]
    IN  /\ ev.pc = "done"
        /\ TruthyStr(legacyUrl)
        /\ Len(ev.posts) = 2
        /\ Len(ev.errors) >= 1
        /\ ev.errors[1] = TenantEndpoint(ev)

(* ------------------------------- C4 ------------------------------------ *)

LegacyPosted(i) ==
  /\ i \in DOMAIN events
  /\ \E k \in DOMAIN events[i].posts :
       events[i].posts[k].url = LegacyEndpoint(events[i], legacyUrl)

\* C4: when a tenant callback and the legacy URL are both configured, the
\* legacy POST of an event is eventually issued, also when the tenant
\* delivery of that event never completes.
C4_LegacyNotBlocked ==
  \A i \in 1..MaxEvents :
    (/\ i \in DOMAIN events
     /\ events[i].user.id # 0
     /\ TruthyStr(events[i].user.callback_url)
     /\ TruthyStr(legacyUrl)) ~> LegacyPosted(i)

(* ------------------------------- C5 ------------------------------------ *)

\* the get that has just returned, for a session whose last store was not
\* followed by a remove
GetAfterStore == ret.op = "getQR" /\ lastStore[ret.session] # NoQR

\* C5 as stated: after store(s, c) at time t with no later store or remove
\* for s, get(s) at time t' returns c when t' - t < TTL and absent when
\* t' - t >= TTL.
C5_ExpiresAtTTL ==
  GetAfterStore =>
    LET st == lastStore[ret.session]
    IN  /\ now - st.timestamp < TTL => ret.value = st.qr
        /\ now - st.timestamp >= TTL => ret.value = NULL

\* C5 as amended: after store(s, c) at time t with no later store or remove
\* for s, get(s) at time t' returns c when t' - t <= TTL and absent when
\* t' - t > TTL.
C5_ExpiresAfterTTL ==
  GetAfterStore =>
    LET st == lastStore[ret.session]
    IN  /\ now - st.timestamp <= TTL => ret.value = st.qr
        /\ now - st.timestamp > TTL => ret.value = NULL

\* a get exactly TTL after the store, which still returns the QR code
C5_GetAtTTL ==
  /\ GetAfterStore
  /\ now - lastStore[ret.session].timestamp = TTL
  /\ ret.value = lastStore[ret.session].qr

(* ------------------------------- C6 ------------------------------------ *)

C6_Removed ==
  \A i \in DOMAIN events :
    LET ev == events[i]
    IN  (ev.status = "connected" /\ lastStore[ev.session] = NoQR)
        => /\ qrCodes[ev.session] = NoQR
           /\ QRStore_getQR(qrCodes, ev.session, now) = NULL

C6_RemovedAtStart ==
  \A i \in Started :
    events'[i].status = "connected"
      => /\ qrCodes'[events'[i].session] = NoQR
         /\ \A k \in DOMAIN events'[i].posts :
              events'[i].posts[k].body = [session |-> events'[i].session,
                                          status |-> "connected"]

\* C6: the step that handles a connected transition of session s, and
\* issues its session POST if there is one to issue at once, leaves no QR
\* entry for s, whether or not the tenant has a callback URL; from then
\* on get(s) returns absent as long as no new store(s, _) occurs.
C6_ConnectedRemovesQR == []C6_Removed /\ [][C6_RemovedAtStart]_vars

\* a connected transition that removed a stored QR code, whose session POST
\* failed, and after which the QR code is still absent
C6_RemovedAndDeliveryFailed ==
  \E i \in DOMAIN events :
    LET ev == events[i]
    IN  /\ ev.status = "connected"
        /\ ev.removedQR
        /\ Len(ev.posts) = 1
        /\ ev.errors = <<ev.posts[1].url>>
        /\ qrCodes[ev.session] = NoQR

(* ------------------------------- C7 ------------------------------------ *)

\* the tenant row a handler that starts for sessionName resolves headers for
ResolvedOAuthTenant(sessionName) ==
  /\ sessionName \in Tenants
  /\ TruthyStr(users[sessionName].callback_url)
  /\ users[sessionName].webhook_auth_type = "oauth"
  /\ TruthyStr(users[sessionName].webhook_auth_username)
  /\ TruthyStr(users[sessionName].webhook_auth_password)
  /\ TruthyStr(users[sessionName].webhook_auth_token_url)

\* C7: for an oauth tenant with all prerequisite fields set and a cached
\* token whose expiration minus the 5-minute buffer is still in the future,
\* header resolution issues no token request, yields exactly
\* Authorization: Bearer <cached token>, and leaves the users table as it was.
C7_FreshTokenServedFromCache ==
  [][\A i \in Started :
       LET ev == events'[i]
           s == ev.session
       IN  (/\ ~ev.filtered
            /\ ResolvedOAuthTenant(s)
            /\ users[s].webhook_auth_token.kind # "null"
            /\ users[s].webhook_auth_token_expiration # Absent
            /\ users[s].webhook_auth_token_expiration - bufferTime > now)
           => /\ ev.tokenRequests = <<>>
              /\ Len(ev.posts) = 1
              /\ ev.posts[1].headers =
                   [h \in {"Content-Type", "Authorization"} |->
                      IF h = "Content-Type" THEN "application/json"
                      ELSE [scheme |-> "Bearer",
                            credentials |-> users[s].webhook_auth_token]]
              /\ users' = users]_vars

\* a handler that sent its POST with a cached token that is still fresh
C7_CachedTokenUsed ==
  \E i \in DOMAIN events :
    LET ev == events[i]
    IN  /\ ev.user.webhook_auth_type = "oauth"
        /\ ev.user.webhook_auth_token.kind = "oauth"
        /\ ev.user.webhook_auth_token_expiration - bufferTime > now
        /\ ev.tokenRequests = <<>>
        /\ Len(ev.posts) >= 1
        /\ HasAuthorization(ev.posts[1])
        /\ ev.posts[1].headers["Authorization"].credentials = ev.user.webhook_auth_token

(* ------------------------------- C8 ------------------------------------ *)

C8_StaleTokenFetched ==
  \A i \in Started :
    LET ev == events'[i]
        s == ev.session
    IN  (/\ ~ev.filtered
         /\ ResolvedOAuthTenant(s)
         /\ \/ users[s].webhook_auth_token.kind = "null"
            \/ users[s].webhook_auth_token_expiration = Absent
            \/ users[s].webhook_auth_token_expiration - now < bufferTime)
        => /\ Len(ev.tokenRequests) = 1
           /\ ev.posts = <<>>

C8_FetchedTokenStored ==
  \A i \in DOMAIN events :
    LET ev == events'[i]
        s == ev.session
        data == ev.answer.data
    IN  (/\ events[i].pc = "fetch"
         /\ ev.pc # "fetch"
         /\ ev.answer.net = "ok"
         /\ data.access_token.kind # "null")
        => /\ Len(ev.tokenRequests) = 1
           /\ Len(ev.posts) = 1
           /\ HasAuthorization(ev.posts[1])
           /\ ev.posts[1].headers["Authorization"] =
                [scheme |-> "Bearer", credentials |-> data.access_token]
           /\ users'[s].webhook_auth_token = data.access_token
           /\ users'[s].webhook_auth_token_expiration =
                now' + (IF data.expires_in = Absent THEN DefaultExpiresIn
                        ELSE data.expires_in)

\* C8: for an oauth tenant whose cached token is absent or expires in less
\* than the 5-minute buffer, header resolution sends exactly one token
\* request; when the endpoint answers with an access_token, that token goes
\* into the Authorization header and the tenant record then holds it with
\* expiration = now + expires_in (3600 s when expires_in is absent).
C8_RefreshStoresToken == [][C8_StaleTokenFetched /\ C8_FetchedTokenStored]_vars

(* ------------------------------- C9 ------------------------------------ *)

\* the token endpoint did not deliver a token: network error, non-2xx
\* status, or a body of none of the accepted shapes
FetchFailed(answer) ==
  \/ answer.net \in {"error", "non2xx"}
  \/ /\ answer.net = "ok"
     /\ answer.data.access_token.kind = "null"
     /\ answer.data.token.kind = "null"
     /\ ~(answer.data.success /\ answer.data.data.present
          /\ answer.data.data.token.kind # "null")

\* C9: after any failure of the token request the handler has not raised
\* and has issued the tenant POST of the event, with the body of the event
\* and with no header but Content-Type.
C9_FetchFailureSendsUnauthenticated ==
  \A i \in DOMAIN events :
    LET ev == events[i]
    IN  FetchFailed(ev.answer)
        => /\ ev.pc # "rejected"
           /\ Len(ev.posts) >= 1
           /\ ev.posts[1].url = TenantEndpoint(ev)
           /\ ev.posts[1].headers = JsonOnly
           /\ ev.posts[1].body = ev.body

\* a token endpoint that answered 200 with an unrecognized body, and the
\* tenant POST that followed without Authorization
C9_UnrecognizedShapePosted ==
  \E i \in DOMAIN events :
    LET ev == events[i]
    IN  /\ ev.answer = [net |-> "ok", data |-> NoTokenData]
        /\ Len(ev.posts) >= 1
        /\ ~HasAuthorization(ev.posts[1])
        /\ ev.posts[1].url = ev.user.callback_url

(* ------------------------------- C10 ----------------------------------- *)

\* C10: no handler ever rejects: each is waiting for a token, waiting for
\* the answer to a POST, or has completed.
C10_HandlersNeverReject ==
  \A i \in DOMAIN events : events[i].pc \in {"fetch", "post", "done"}

\* a handler that completed although its token request and both of its
\* POSTs failed
C10_CompletedDespiteFailures ==
  \E i \in DOMAIN events :
    /\ events[i].pc = "done"
    /\ Len(events[i].errors) = 3
    /\ events[i].errors[1] = "token"

(* ------------------------------- C11 ----------------------------------- *)

\* handler ev is waiting for the token endpoint or for a webhook endpoint
InFlight(ev) == ev.pc \in {"fetch", "post"}

\* C11: when a webhook-auth update of a tenant has completed, the record of
\* the tenant has a null token expiration, and its token is the token the
\* request supplied, or null when the request supplied none: a token the
\* token endpoint issued earlier is gone.
C11_UpdateClearsCache ==
  ret.op = "putWebhookAuth" =>
    LET row == users[ret.user]
    IN  /\ row.webhook_auth_token_expiration = Absent
        /\ row.webhook_auth_token =
             (IF "webhook_auth_token" \in DOMAIN ret.payload
              THEN ret.payload.webhook_auth_token ELSE NoToken)
        /\ row.webhook_auth_token.kind # "oauth"
        /\ row.webhook_auth_type = ret.payload.webhook_auth_type

\* an update from oauth to bearer, with no dispatch in flight, of a record
\* that held a cached OAuth token
C11_OAuthToBearer ==
  /\ ret.op = "putWebhookAuth"
  /\ ret.before.webhook_auth_type = "oauth"
  /\ ret.before.webhook_auth_token.kind = "oauth"
  /\ ret.before.webhook_auth_token_expiration # Absent
  /\ ret.payload.webhook_auth_type = "bearer"
  /\ \A i \in DOMAIN events : ~InFlight(events[i])
  /\ users[ret.user].webhook_auth_token = StaticToken
  /\ users[ret.user].webhook_auth_token_expiration = Absent

(* ------------------------------- C12 ----------------------------------- *)

C12_LegacyPostsBare ==
  \A i \in DOMAIN events :
    \A k \in DOMAIN events[i].posts :
      LET p == events[i].posts[k]
      IN  (TruthyStr(legacyUrl) /\ p.url = LegacyEndpoint(events[i], legacyUrl))
          => ~HasAuthorization(p) /\ p.headers = JsonOnly

C12_LegacySendBare ==
  \A i \in DOMAIN events' :
    \A k \in DOMAIN NewPosts(i) :
      events'[i].phase = "legacy"
        => /\ NewPosts(i)[k].headers = JsonOnly
           /\ events'[i].tokenRequests = events[i].tokenRequests
           /\ users' = users

\* C12: no POST to the legacy URL, of a message or of a session event,
\* carries an Authorization header, and the legacy send of a handler issues
\* its POST with Content-Type only, without a token request and without a
\* write to the users table, whatever the auth scheme and the token cache
\* of the tenant of the event.
C12_LegacyUnauthenticated == []C12_LegacyPostsBare /\ [][C12_LegacySendBare]_vars

\* a handler whose tenant POST carried an Authorization header and whose
\* legacy POST of the same event carried none
C12_AuthTenantBareLegacy ==
  \E i \in DOMAIN events :
    LET ev == events[i]
    IN  /\ Len(ev.posts) = 2
        /\ HasAuthorization(ev.posts[1])
        /\ ev.posts[2].url = LegacyEndpoint(ev, legacyUrl)
        /\ ev.posts[2].headers = JsonOnly

(* ------------------------------- C13 ----------------------------------- *)

\* the tenant of session s has a callback URL and auth type none, and no
\* legacy URL is configured
PlainTenantOnly(s) ==
  /\ s \in Tenants
  /\ TruthyStr(users[s].callback_url)
  /\ users[s].webhook_auth_type = "none"
  /\ ~TruthyStr(legacyUrl)

\* C13: a message event that passes the filter, for a session whose tenant
\* has a callback URL and auth type none, with no legacy URL configured,
\* produces exactly one POST and no token request: the POST goes to the
\* callback URL as configured, with Content-Type application/json as its
\* only header, and its body is {session, from, messageId, message, media}
\* filled from the event.
C13_OnePlainPost ==
  \A i \in DOMAIN events :
    LET ev == events[i]
    IN  (ev.kind = "message" /\ ~ev.filtered /\ PlainTenantOnly(ev.session))
        => /\ Len(ev.posts) = 1
           /\ ev.tokenRequests = <<>>
           /\ ev.posts[1].url = users[ev.session].callback_url
           /\ ev.posts[1].headers = JsonOnly
           /\ ~HasAuthorization(ev.posts[1])
           /\ DOMAIN ev.posts[1].body =
                {"session", "from", "messageId", "message", "media"}
           /\ ev.posts[1].body.session = ev.session
           /\ ev.posts[1].body.media = NoMedia
           /\ (ret.op = "message" /\ i = Len(events))
                => /\ ev.posts[1].body.session = ret.msg.sessionId
                   /\ ev.posts[1].body.from = ret.msg.remoteJid
                   /\ ev.posts[1].body.messageId = ret.msg.id
                   /\ ev.posts[1].body.message = ret.msg.message.conversation

\* a completed message handler of such a tenant, with its single POST
C13_PlainPostDone ==
  \E i \in DOMAIN events :
    LET ev == events[i]
    IN  /\ ev.kind = "message"
        /\ ~ev.filtered
        /\ PlainTenantOnly(ev.session)
        /\ ev.pc = "done"
        /\ Len(ev.posts) = 1
        /\ ev.posts[1].url = CallbackOf(ev.session)

(* ------------------------------- C14 ----------------------------------- *)

\* the callback destinations of tenant n
CallbackEndpoints(n) ==
  IF TruthyStr(users[n].callback_url)
  THEN {users[n].callback_url, users[n].callback_url \o "/session"}
  ELSE {}

\* the Authorization values that derive from the auth configuration of the
\* tenant of handler i: its Basic credentials, its static token, the OAuth
\* token cached in its record when the handler started, or the token the
\* token endpoint issued to the request of handler i itself
OwnAuthorizations(i) ==
  LET ev == events[i]
      row == users[ev.session]
  IN  IF row.webhook_auth_type = "basic"
      THEN {[scheme |-> "Basic",
             credentials |-> Base64(row.webhook_auth_username \o ":"
                                      \o row.webhook_auth_password)]}
      ELSE IF row.webhook_auth_type = "bearer"
      THEN {[scheme |-> "Bearer", credentials |-> row.webhook_auth_token]}
      ELSE IF row.webhook_auth_type = "oauth"
      THEN {[scheme |-> "Bearer", credentials |-> t] :
              t \in {ev.user.webhook_auth_token, IssuedToken(ev.gen, i)}}
      ELSE {}

\* C14: a POST of an event for session s that is not the legacy copy goes
\* to the callback destination of the tenant whose username is s and to no
\* other tenant's; its Authorization header, if any, derives from the auth
\* configuration of that tenant, and a token request of the handler carries
\* that tenant's credentials.
C14_TenantIsolation ==
  \A i \in DOMAIN events :
    LET ev == events[i]
    IN  /\ \A k \in DOMAIN ev.posts :
             LET p == ev.posts[k]
             IN  (k = 1 \/ p.url \in UNION {CallbackEndpoints(n) : n \in Tenants})
                 => /\ ev.session \in Tenants
                    /\ users[ev.session].username = ev.session
                    /\ ev.user.id = users[ev.session].id
                    /\ p.url \in CallbackEndpoints(ev.session)
                    /\ \A n \in Tenants \ {ev.session} : p.url \notin CallbackEndpoints(n)
                    /\ HasAuthorization(p)
                         => p.headers["Authorization"] \in OwnAuthorizations(i)
        /\ \A k \in DOMAIN ev.tokenRequests :
             /\ ev.session \in Tenants
             /\ ev.tokenRequests[k].url = users[ev.session].webhook_auth_token_url
             /\ ev.tokenRequests[k].body.client_id = users[ev.session].webhook_auth_username
             /\ ev.tokenRequests[k].body.client_secret = users[ev.session].webhook_auth_password

\* an event of bob delivered with bob's credentials while alice has a
\* callback URL and another auth configuration
C14_BobDeliveredAsBob ==
  \E i \in DOMAIN events :
    LET ev == events[i]
    IN  /\ ev.session = "bob"
        /\ Len(ev.posts) >= 1
        /\ ev.posts[1].url = CallbackOf("bob")
        /\ HasAuthorization(ev.posts[1])
        /\ TruthyStr(users["alice"].callback_url)
        /\ users["alice"].webhook_auth_type # users["bob"].webhook_auth_type

(* ------------------------------- C15 ----------------------------------- *)

\* the message event that has just arrived is self-sent or addressed to a
\* broadcast recipient
IgnoredMessageArrived ==
  /\ ret.op = "message"
  /\ ret.msg.fromMe \/ ret.msg.remoteJid = "status@broadcast"

\* C15: a message event that is self-sent or whose recipient identifier is
\* a broadcast one is ignored: its handler returns at once and never issues
\* a POST, to the tenant callback or to the legacy URL, nor a token request.
C15_IgnoredMessagesSendNothing ==
  /\ IgnoredMessageArrived => events[Len(events)].filtered
  /\ \A i \in DOMAIN events :
       events[i].filtered
         => /\ events[i].posts = <<>>
            /\ events[i].tokenRequests = <<>>
            /\ events[i].pc = "done"

\* a broadcast message for an oauth tenant without a cached token, with a
\* legacy URL configured, that was ignored
C15_BroadcastIgnored ==
  /\ IgnoredMessageArrived
  /\ ~ret.msg.fromMe
  /\ users[ret.msg.sessionId].webhook_auth_type = "oauth"
  /\ users[ret.msg.sessionId].webhook_auth_token = NoToken
  /\ TruthyStr(users[ret.msg.sessionId].callback_url)
  /\ TruthyStr(legacyUrl)
  /\ events[Len(events)].posts = <<>>
  /\ events[Len(events)].tokenRequests = <<>>

(* ------------------------------- C16 ----------------------------------- *)

\* C16: the tenant a handler resolves for the session of its event is the
\* row of the users table whose username equals the session name, it is
\* absent when the table has no such row, and it is never an admin, also
\* for the session the admin has started under the admin's own name.
C16_ResolverExactNoAdmin ==
  \A i \in DOMAIN events :
    LET ev == events[i]
    IN  ~ev.filtered
        => /\ (\E n \in DOMAIN users : users[n].username = ev.session)
                => /\ ev.user.username = ev.session
                   /\ ev.user.id = users[ev.session].id
           /\ ~(\E n \in DOMAIN users : users[n].username = ev.session)
                => ev.user = NoUser
           /\ ev.user.is_admin # 1
           /\ ev.user.id # VirtualAdmin.id

\* a message of the session the admin started, resolved to no tenant, and
\* a tenant's own session existing beside it
C16_AdminSessionUnresolved ==
  /\ AdminUser \in sessions
  /\ "alice" \in sessions
  /\ \E i \in DOMAIN events :
       /\ events[i].session = AdminUser
       /\ events[i].kind = "message"
       /\ events[i].user = NoUser
       /\ events[i].posts = <<>>

(* ------------------------------- C17 ----------------------------------- *)

C18_GetAfterRemoveAbsent ==
  (ret.op = "getQR" /\ lastStore[ret.session] = NoQR)
    => /\ ret.value = NULL
       /\ qrCodes[ret.session] = NoQR

\* a get that returned absent in the very minute in which a QR code of the
\* session was stored and then removed by the connected handler
C18_FreshEntryRemoved ==
  /\ ret.op = "getQR"
  /\ ret.value = NULL
  /\ now = 0
  /\ \E i \in DOMAIN events :
       /\ events[i].status = "connected"
       /\ events[i].removedQR
       /\ events[i].session = ret.session
  /\ lastStore[ret.session] = NoQR

(* ------------------------------- C19 ----------------------------------- *)

\* C19: the QR store holds at most one entry per session, the one of the
\* latest store: store(s, c2) replaces whatever entry s had by c2 with the
\* time of this store, and a get(s) up to TTL after the latest store
\* returns the QR code of that store and no earlier one.
C19_StoreOverwrites ==
  /\ \A s \in Sessions : qrCodes[s] # NoQR => qrCodes[s] = lastStore[s]
  /\ ret.op = "storeQR"
       => /\ qrCodes[ret.session] = [qr |-> ret.qr, timestamp |-> now]
          /\ QRStore_getQR(qrCodes, ret.session, now) = ret.qr
  /\ (GetAfterStore /\ now - lastStore[ret.session].timestamp <= TTL)
       => ret.value = lastStore[ret.session].qr

\* a store that replaced an older entry holding another QR code
C19_OlderEntryReplaced ==
  /\ ret.op = "storeQR"
  /\ ret.replaced # NoQR
  /\ ret.replaced.qr # ret.qr
  /\ ret.replaced.timestamp < now
  /\ qrCodes[ret.session] = [qr |-> ret.qr, timestamp |-> now]

(* ------------------------------- C20 ----------------------------------- *)

\* the tenant of session s has a callback URL and auth type basic
BasicTenant(s) ==
  /\ s \in Tenants
  /\ TruthyStr(users[s].callback_url)
  /\ users[s].webhook_auth_type = "basic"

\* a credential that is neither null nor the empty string
Present(v) == v # NULL /\ v # ""

C20_HeadersAtStart ==
  \A i \in Started :
    LET ev == events'[i]
        row == users[ev.session]
    IN  (~ev.filtered /\ BasicTenant(ev.session))
        => /\ Len(ev.posts) = 1
           /\ ev.posts[1].headers =
                (IF Present(row.webhook_auth_username) /\ Present(row.webhook_auth_password)
                 THEN [h \in {"Content-Type", "Authorization"} |->
                         IF h = "Content-Type" THEN "application/json"
                         ELSE [scheme |-> "Basic",
                               credentials |->
                                 [base64 |-> row.webhook_auth_username \o ":"
                                               \o row.webhook_auth_password]]]
                 ELSE JsonOnly)
           /\ ev.tokenRequests = <<>>
           /\ users' = users

C20_NoRequestNoWrite ==
  \A i \in DOMAIN events :
    BasicTenant(events[i].session)
      => events'[i].tokenRequests = <<>> /\ users' = users

\* C20: for a tenant of type basic, header resolution yields exactly
\* Authorization: Basic base64(username:password) when username and
\* password are both set, and no Authorization header when either is
\* missing; in both cases it sends no token request and the step leaves the
\* users table as it was.
C20_BasicHeaders == [][C20_HeadersAtStart /\ C20_NoRequestNoWrite]_vars

\* a delivery for a basic tenant whose password is missing, sent without
\* Authorization
C20_MissingPasswordBare ==
  \E i \in DOMAIN events :
    LET ev == events[i]
    IN  /\ ev.user.webhook_auth_type = "basic"
        /\ ev.user.webhook_auth_username = "u1"
        /\ ev.user.webhook_auth_password = NULL
        /\ Len(ev.posts) = 1
        /\ ev.posts[1].headers = JsonOnly
        /\ ev.tokenRequests = <<>>

(* ------------------------------- C21 ----------------------------------- *)

\* no tenant is resolved for session s, or the tenant has no callback URL
NoDestination(s) ==
  \/ s \notin DOMAIN users
  \/ ~TruthyStr(users[s].callback_url)

\* C21: with no legacy URL configured, an event whose session resolves to
\* no tenant, or to a tenant without a callback URL, is dropped: its
\* handler issues no POST and no token request, logs no failure and has
\* completed.
C21_DroppedWithoutDestination ==
  \A i \in DOMAIN events :
    LET ev == events[i]
    IN  (~ev.filtered /\ NoDestination(ev.session) /\ ~TruthyStr(legacyUrl))
        => /\ ev.posts = <<>>
           /\ ev.tokenRequests = <<>>
           /\ ev.errors = <<>>
           /\ ev.pc = "done"

\* a message of a session without a users row, dropped
C21_UnknownSessionDropped ==
  \E i \in DOMAIN events :
    /\ events[i].kind = "message"
    /\ ~events[i].filtered
    /\ events[i].session \notin DOMAIN users
    /\ events[i].user = NoUser
    /\ ~TruthyStr(legacyUrl)
    /\ events[i].posts = <<>>
    /\ events[i].pc = "done"

(* ------------------------------- C22 ----------------------------------- *)

\* C22: no delivery is repeated: a handler issues at most one POST to each
\* destination, at most two POSTs in all, and at most one token request,
\* whatever the outcome of the token request and of each POST.
C22_NoRetry ==
  \A i \in DOMAIN events :
    LET ev == events[i]
    IN  /\ Len(ev.posts) <= 2
        /\ \A j, k \in DOMAIN ev.posts : j # k => ev.posts[j].url # ev.posts[k].url
        /\ Len(ev.tokenRequests) <= 1
        /\ Len(ev.errors) <= Len(ev.posts) + Len(ev.tokenRequests)

\* a handler whose token request, tenant POST and legacy POST all failed,
\* each attempted once
C22_EachFailedOnce ==
  \E i \in DOMAIN events :
    LET ev == events[i]
    IN  /\ ev.pc = "done"
        /\ Len(ev.tokenRequests) = 1
        /\ Len(ev.posts) = 2
        /\ ev.errors = <<"token", ev.posts[1].url, ev.posts[2].url>>

(* ------------------------------- C23 ----------------------------------- *)

\* C23: every handler eventually completes, also when the token endpoint
\* or a webhook endpoint never answers the request the handler waits for.
C23_DispatchTerminates ==
  \A i \in 1..MaxEvents :
    (i \in DOMAIN events) ~> (i \in DOMAIN events /\ events[i].pc = "done")


(* ------------------------------- C24 ----------------------------------- *)

\* handler ev fetched a token and wrote it to the tenant record
Refreshed(ev) == ev.storedAt # Absent

\* the token and the expiration handler ev wrote
WrittenBy(ev) ==
  LET r == fetchOAuthToken(ev.answer)
  IN  [token |-> r.access_token,
       expiration |-> TokenExpiration(r.expires_in, ev.storedAt)]

CachedPair(user) ==
  [token |-> user.webhook_auth_token,
   expiration |-> user.webhook_auth_token_expiration]

\* C24: concurrent refreshes of one oauth tenant cost one token request per
\* dispatch and nothing else: each dispatch POSTs once, with the token its own
\* request returned, and the tenant record holds the token and the expiration
\* of one and the same fetch.
C24_ConcurrentRefreshConsistent ==
  /\ \A i \in DOMAIN events :
       /\ Len(events[i].tokenRequests) <= 1
       /\ Len(events[i].posts) <= 1
       /\ Refreshed(events[i]) =>
            /\ Len(events[i].posts) = 1
            /\ events[i].posts[1].headers =
                 PostHeaders(Bearer(fetchOAuthToken(events[i].answer).access_token))
            /\ fetchOAuthToken(events[i].answer).access_token =
                 IssuedToken(events[i].gen, i)
  /\ \A n \in Tenants :
       (\E i \in DOMAIN events : events[i].session = n /\ Refreshed(events[i]))
       => \E i \in DOMAIN events :
            /\ events[i].session = n
            /\ Refreshed(events[i])
            /\ CachedPair(users[n]) = WrittenBy(events[i])

\* both dispatches of alice refreshed concurrently and completed; the fetch
\* of the first one was answered last, at a later time and with another
\* lifetime than the second one's
C24_BothRefreshed ==
  /\ Len(events) >= 2
  /\ events[1].session = "alice" /\ events[2].session = "alice"
  /\ events[1].pc = "done" /\ events[2].pc = "done"
  /\ Refreshed(events[1]) /\ Refreshed(events[2])
  /\ events[1].storedAt > events[2].storedAt
  /\ WrittenBy(events[1]).expiration # WrittenBy(events[2]).expiration
  /\ users["alice"].webhook_auth_token = IssuedToken(events[1].gen, 1)


(* ------------------------------- C25 ----------------------------------- *)

\* handler i receives the answer to its token request in the current step
TokenAnswered(i) ==
  i \in DOMAIN events /\ events[i].pc = "fetch" /\ events'[i].pc # "fetch"

\* C25: the write-back of a token request changes the token and expiration
\* of a tenant only while the tenant's current auth type is oauth, so a
\* static bearer token is never overwritten by it, also when the type was
\* switched from oauth to bearer while the request was in flight.
C25_WriteBackOnlyWhileOAuth ==
  [][\A i \in DOMAIN events : \A n \in Tenants :
       (TokenAnswered(i) /\ CachedPair(users'[n]) # CachedPair(users[n]))
       => users[n].webhook_auth_type = "oauth"]_vars


(* ------------------------------- C26 ----------------------------------- *)

\* the tenant of session s has a callback URL and auth type oauth, and its
\* username, password or token URL is null or empty
UnconfiguredOAuthTenant(s) ==
  /\ s \in Tenants
  /\ TruthyStr(users[s].callback_url)
  /\ users[s].webhook_auth_type = "oauth"
  /\ \/ ~Present(users[s].webhook_auth_username)
     \/ ~Present(users[s].webhook_auth_password)
     \/ ~Present(users[s].webhook_auth_token_url)

C26_BareAtStart ==
  \A i \in Started :
    LET ev == events'[i]
    IN  (~ev.filtered /\ UnconfiguredOAuthTenant(ev.session))
        => /\ Len(ev.posts) = 1
           /\ ev.posts[1].headers = JsonOnly
           /\ ev.pc = "post"

C26_NoRequestNoWrite ==
  \A i \in DOMAIN events' :
    UnconfiguredOAuthTenant(events'[i].session)
      => events'[i].tokenRequests = <<>> /\ users' = users

ShapeOf(d) ==
  IF d.access_token # NoToken THEN 1
  ELSE IF d.token # NoToken THEN 2
  ELSE IF d.success /\ d.data.present /\ d.data.token # NoToken THEN 3
  ELSE 0

\* the token of the selected shape
ShapeToken(d) ==
  CASE ShapeOf(d) = 1 -> d.access_token
    [] ShapeOf(d) = 2 -> d.token
    [] ShapeOf(d) = 3 -> d.data.token
    [] OTHER -> NoToken

\* the lifetime the selected shape carries: expires_in, else expiresIn
ShapeLifetime(d) ==
  CASE ShapeOf(d) = 1 -> d.expires_in
    [] ShapeOf(d) = 2 -> IF d.expires_in # Absent THEN d.expires_in ELSE d.expiresIn
    [] ShapeOf(d) = 3 ->
         IF d.data.expires_in # Absent THEN d.data.expires_in ELSE d.data.expiresIn
    [] OTHER -> Absent

C27_AnswerParsed ==
  \A i \in DOMAIN events :
    TokenAnswered(i) /\ events'[i].answer.net = "ok"
    => LET ev == events'[i]
           d == ev.answer.data
           row == users'[ev.session]
       IN  IF ShapeOf(d) = 0
           THEN /\ ev.errors # <<>> /\ ev.errors[1] = "token"
                /\ users' = users
                /\ Len(ev.posts) = 1 /\ ev.posts[1].headers = JsonOnly
           ELSE /\ ev.errors = <<>>
                /\ row.webhook_auth_token = ShapeToken(d)
                /\ row.webhook_auth_token_expiration =
                     now + (IF ShapeLifetime(d) = Absent THEN DefaultExpiresIn
                            ELSE ShapeLifetime(d))
                /\ Len(ev.posts) = 1
                /\ ev.posts[1].headers = PostHeaders(Bearer(ShapeToken(d)))

\* C27: the answer of the token endpoint is parsed in priority order: a
\* top-level access_token is used as it is; otherwise a top-level token,
\* with the lifetime of expires_in or else expiresIn; otherwise the token of
\* a {success: true, data: {token}} envelope, with the lifetime of the
\* envelope; otherwise the fetch fails. {token, expiresIn: 2} gives that
\* token with lifetime 2.
C27_ParsePriority == [][C27_AnswerParsed]_vars

\* the endpoint answered {token, expiresIn} and nothing else: the handler
\* stored that token with the camel-case lifetime and sent it
C27_TokenExpiresInCamel ==
  \E i \in DOMAIN events :
    LET ev == events[i]
        d == ev.answer.data
    IN  /\ ev.answer.net = "ok"
        /\ d = [NoTokenData EXCEPT !.token = FieldToken(ev.gen, i, 2),
                                    !.expiresIn = CamelLifetime]
        /\ ev.pc = "done"
        /\ ev.posts[1].headers = PostHeaders(Bearer(d.token))
        /\ users[ev.session].webhook_auth_token = d.token
        /\ users[ev.session].webhook_auth_token_expiration =
             ev.storedAt + CamelLifetime


(* ------------------------------- C28 ----------------------------------- *)

C28_ExpirationStored ==
  \A i \in DOMAIN events :
    TokenAnswered(i) /\ fetchOAuthToken(events'[i].answer).ok
    => LET r == fetchOAuthToken(events'[i].answer)
           row == users'[events'[i].session]
       IN  /\ row.webhook_auth_token = r.access_token
           /\ row.webhook_auth_token_expiration =
                now + (IF r.expires_in = Absent THEN DefaultExpiresIn ELSE r.expires_in)

\* C28: the step that receives a parsed token answer stores the token and,
\* with it, the expiration now + expires_in, where the default of 3600 s
\* stands in exactly when the answer carries no expires_in.
C28_ExpirationFromAnswer == [][C28_ExpirationStored]_vars


(* ------------------------------- C29 ----------------------------------- *)

\* the tenant of session s has a callback URL and its auth type is none,
\* bearer or not set
PlainTenant(s) ==
  /\ s \in Tenants
  /\ TruthyStr(users[s].callback_url)
  /\ users[s].webhook_auth_type \in {"none", "bearer", NULL, ""}

C29_HeadersAtStart ==
  \A i \in Started :
    LET ev == events'[i]
        row == users[ev.session]
    IN  (~ev.filtered /\ PlainTenant(ev.session))
        => /\ Len(ev.posts) = 1
           /\ ev.posts[1].headers =
                (IF row.webhook_auth_type = "bearer" /\ row.webhook_auth_token # NoToken
                 THEN [h \in {"Content-Type", "Authorization"} |->
                         IF h = "Content-Type" THEN "application/json"
                         ELSE [scheme |-> "Bearer",
                               credentials |-> row.webhook_auth_token]]
                 ELSE JsonOnly)

\* a send without a tenant (the legacy copy) resolves to no header
C29_NoTenantBare ==
  \A i \in DOMAIN events' :
    \A k \in DOMAIN NewPosts(i) :
      (events'[i].phase = "legacy" /\ PlainTenant(events'[i].session))
        => NewPosts(i)[k].headers = JsonOnly

C29_NoRequestNoWrite ==
  \A i \in DOMAIN events' :
    PlainTenant(events'[i].session)
      => events'[i].tokenRequests = <<>> /\ users' = users

\* C29: for a tenant of type none or bearer or without a type, and for a send
\* without a tenant, header resolution sends no token request and leaves the
\* users table alone; the POST carries Authorization: Bearer <token> exactly
\* when the type is bearer and a token is stored, and Content-Type only in
\* every other of these cases.
C29_PlainHeaders ==
  [][C29_HeadersAtStart /\ C29_NoTenantBare /\ C29_NoRequestNoWrite]_vars

\* a message of alice, type bearer with a static token, went to her callback
\* with that token and to the legacy URL without Authorization
C29_StaticTokenSent ==
  \E i \in DOMAIN events :
    LET ev == events[i]
    IN  /\ ev.session = "alice" /\ ev.pc = "done"
        /\ users["alice"].webhook_auth_type = "bearer"
        /\ users["alice"].webhook_auth_token = StaticToken
        /\ Len(ev.posts) = 2
        /\ ev.posts[1].headers = PostHeaders(Bearer(StaticToken))
        /\ ev.posts[2].headers = JsonOnly
        /\ ev.tokenRequests = <<>>


(* ------------------------------- C30 ----------------------------------- *)

Transitions == {"connecting", "connected", "disconnected"}

\* handler ev is of a session event whose tenant has a callback URL
SessionEventOfTenant(ev) == ev.kind = "session" /\ TruthyStr(ev.user.callback_url)

C30_SessionPosts ==
  \A i \in DOMAIN events :
    LET ev == events[i]
    IN  SessionEventOfTenant(ev)
        => /\ Len(ev.posts) <= 2
           /\ ev.pc # "fetch" => Len(ev.posts) >= 1
           /\ \A k \in DOMAIN ev.posts :
                /\ ev.posts[k].body = [session |-> ev.session, status |-> ev.status]
                /\ k = 1 => /\ ev.posts[k].url = ev.user.callback_url \o "/session"
                            /\ ev.posts[k].url # ev.user.callback_url
                /\ k = 2 => /\ TruthyStr(legacyUrl)
                            /\ ev.posts[k].url = legacyUrl \o "/session"

C30_StatusIsTransition ==
  \A i \in Started :
    events'[i].kind = "session"
      => /\ ret'.op \in Transitions
         /\ events'[i].status = ret'.op
         /\ events'[i].session = ret'.session

\* C30: a session event (connecting, connected, disconnected) of a tenant
\* with a callback URL is POSTed to <callback_url>/session, never to the
\* callback URL itself, with body {session, status} of the session and the
\* transition reported; its legacy copy goes to <legacy_url>/session.
C30_SessionEndpoint == []C30_SessionPosts /\ [][C30_StatusIsTransition]_vars

\* the disconnected event of alice was delivered to her callback and to the
\* legacy URL, both under /session
C30_DisconnectedDelivered ==
  \E i \in DOMAIN events :
    LET ev == events[i]
    IN  /\ ev.kind = "session" /\ ev.session = "alice" /\ ev.pc = "done"
        /\ Len(ev.posts) = 2
        /\ ev.posts[1].url = CallbackOf("alice") \o "/session"
        /\ ev.posts[2].url = LegacyUrl \o "/session"
        /\ ev.posts[1].body = [session |-> "alice", status |-> "disconnected"]
        /\ ev.posts[2].body = ev.posts[1].body


(* ------------------------------- C31 ----------------------------------- *)

TokenColumns == {"webhook_auth_token", "webhook_auth_token_expiration"}

C31_WriteBackFrame ==
  \A i \in DOMAIN events :
    TokenAnswered(i)
    => LET a == events[i].session
       IN  /\ \A n \in Tenants \ {a} : users'[n] = users[n]
           /\ \A f \in DOMAIN users[a] \ TokenColumns : users'[a][f] = users[a][f]

\* C31: the step in which the token request of a handler of tenant A is
\* answered changes no row of another tenant, and on A's row nothing but
\* the cached token and its expiration.
C31_TokenWriteLocal == [][C31_WriteBackFrame]_vars

\* alice's row holds the token a handler fetched, and bob's row is as it was
C31_AliceRefreshedBobUntouched ==
  \E i \in DOMAIN events :
    /\ events[i].session = "alice"
    /\ Refreshed(events[i])
    /\ users["alice"].webhook_auth_token = IssuedToken(events[i].gen, i)
    /\ users["alice"].webhook_auth_username = events[i].user.webhook_auth_username
    /\ users["bob"] = BasicRow("bob")


(* ------------------------------- C32 ----------------------------------- *)

\* the token request of handler ev was answered and the fetch failed: a
\* network error, a non-2xx status, or a body of none of the three shapes
FetchFailedFor(ev) ==
  /\ ev.answer # NoAnswer
  /\ ev.answer.net # "ok" \/ ShapeOf(ev.answer.data) = 0

C32_FailureWritesNothing ==
  \A i \in DOMAIN events :
    (TokenAnswered(i) /\ FetchFailedFor(events'[i])) => users' = users

C32_NextDispatchFetches ==
  \A i \in Started :
    LET ev == events'[i]
    IN  (/\ ~ev.filtered
         /\ \E j \in DOMAIN events :
              /\ events[j].session = ev.session
              /\ FetchFailedFor(events[j])
              /\ users[ev.session] = events[j].user)
        => /\ Len(ev.tokenRequests) = 1
           /\ ev.pc = "fetch"
           /\ ev.posts = <<>>

\* C32: a failed token fetch leaves the users table as it was, so the next
\* dispatch for that tenant finds the same stale or absent cached token and
\* sends a token request again.
C32_FailedFetchKeepsRecord ==
  [][C32_FailureWritesNothing /\ C32_NextDispatchFetches]_vars

\* the first handler of alice failed to get a token and delivered without
\* one; her row is as that handler read it, and the next handler has sent
\* a token request of its own
C32_SecondDispatchRefetches ==
  /\ Len(events) >= 2
  /\ events[1].session = "alice" /\ events[2].session = "alice"
  /\ FetchFailedFor(events[1]) /\ events[1].pc = "done"
  /\ events[1].user.webhook_auth_token = IssuedToken(0, 0)
  /\ users["alice"] = events[1].user
  /\ events[2].pc = "fetch" /\ Len(events[2].tokenRequests) = 1


(* ------------------------------- C33 ----------------------------------- *)

\* the current step is a get (every other step sets ret to something else)
GetStep == ret'.op = "getQR" /\ <<ret, qrCodes>>' # <<ret, qrCodes>>

\* a get changes the map at most by evicting the entry it found expired,
\* and then returns absent
C33_GetKeepsEntries ==
  GetStep =>
    /\ \A s \in Sessions \ {ret'.session} : qrCodes'[s] = qrCodes[s]
    /\ \/ qrCodes'[ret'.session] = qrCodes[ret'.session]
       \/ qrCodes'[ret'.session] = NoQR /\ ret'.value = NULL
    /\ ret'.value # NULL => qrCodes' = qrCodes

\* what a get returned is the payload of the last store for that session,
\* not removed since, of age less than TTL
C33_ReturnedBeforeTTL ==
  (ret.op = "getQR" /\ ret.value # NULL)
  => /\ lastStore[ret.session] # NoQR
     /\ ret.value = lastStore[ret.session].qr
     /\ now - lastStore[ret.session].timestamp < TTL

\* the same, of age at most TTL
C33_ReturnedUpToTTL ==
  (ret.op = "getQR" /\ ret.value # NULL)
  => /\ lastStore[ret.session] # NoQR
     /\ ret.value = lastStore[ret.session].qr
     /\ now - lastStore[ret.session].timestamp <= TTL

\* C33 as stated: a get never changes the payload or the creation instant
\* of an entry, so an entry stored at t is not returned once TTL has elapsed
\* since t, however often it is polled, and a get returns only the payload
\* last stored for its own session and not removed since.
C33_GetNeverExtends == []C33_ReturnedBeforeTTL /\ [][C33_GetKeepsEntries]_vars

\* C33 as amended: the same, with the entry not returned once more than TTL
\* has elapsed since t.
C33_GetNeverExtendsPastTTL == []C33_ReturnedUpToTTL /\ [][C33_GetKeepsEntries]_vars

\* a poll of alice's session exactly TTL after the store returned her QR
\* code and left the entry as stored, next to another code held for ghost
C33_PolledEntryIntact ==
  /\ ret.op = "getQR" /\ ret.session = "alice" /\ ret.value = "qr1"
  /\ qrCodes["alice"] = lastStore["alice"]
  /\ now - lastStore["alice"].timestamp = TTL
  /\ qrCodes["ghost"] # NoQR /\ qrCodes["ghost"].qr = "qr2"


(* ------------------------------- C34 ----------------------------------- *)

PollRoutes == {"/session/:session/qr", "/session/:session/status"}

\* the current step is a request to one of the polling routes
PollStep == ret'.op \in PollRoutes /\ <<ret, qrCodes>>' # <<ret, qrCodes>>

\* login name c is of a regular user
RegularUser(c) == c \in DOMAIN users /\ users[c].is_admin # 1

C34_ForeignPoll ==
  (PollStep /\ RegularUser(ret'.caller) /\ ret'.session # ret'.caller)
  => /\ ret'.status = 403
     /\ qrCodes' = qrCodes
     /\ IF ret'.op = "/session/:session/qr"
        THEN ret'.value = NULL
        ELSE ~ret'.has_qr /\ ~ret'.exists

\* C34: a request of a regular user to the QR route or the status route for
\* a session that is not the user's own username is answered 403, carries
\* no QR code and no has_qr, and leaves the QR store as it was (nothing is
\* read, nothing evicted).
C34_ForeignPollRejected == [][C34_ForeignPoll]_vars

\* alice asked for the QR code of bob's session while the store held an
\* expired code for it: 403, and the expired entry is still there
C34_AliceDeniedBobsQR ==
  /\ ret.op = "/session/:session/qr"
  /\ ret.caller = "alice" /\ ret.session = "bob" /\ ret.status = 403
  /\ qrCodes["bob"] # NoQR
  /\ now - qrCodes["bob"].timestamp > TTL


(* ------------------------------- C35 ----------------------------------- *)

DeleteRoutes == {"/session/logout", "/dashboard/disconnect-session"}

\* the request that has just been processed deleted a session
C35_DeletedNow ==
  ret.op \in DeleteRoutes
  => /\ qrCodes[ret.session] = NoQR
     /\ QRStore_getQR(qrCodes, ret.session, now) = NULL
     /\ ret.session \notin sessions

\* a session that is not started has no entry
C35_NoFlowNoEntry ==
  \A s \in Sessions :
    s \notin sessions
    => qrCodes[s] = NoQR /\ QRStore_getQR(qrCodes, s, now) = NULL

\* an entry appears only by a store for a started session
C35_EntryFromStartedFlow ==
  \A s \in Sessions :
    (qrCodes[s] = NoQR /\ qrCodes'[s] # NoQR)
    => s \in sessions /\ ret'.op = "storeQR" /\ ret'.session = s

\* C35: when a logout or dashboard disconnect request for session s has
\* been processed the QR store has no entry for s, and get(s) returns absent
\* from then on until a session-start flow started afterwards stores a QR
\* code for s.
C35_DeletedSessionHasNoQR ==
  [](C35_DeletedNow /\ C35_NoFlowNoEntry) /\ [][C35_EntryFromStartedFlow]_vars

\* alice disconnected her session from the dashboard while a QR code was
\* stored for it
C35_DisconnectRemovedQR ==
  /\ ret.op = "/dashboard/disconnect-session"
  /\ ret.session = "alice"
  /\ ret.removed # NoQR
  /\ qrCodes["alice"] = NoQR


(* ------------------------------- C36 ----------------------------------- *)

\* the current step is a sweep
SweepStep == ret'.op = "clearExpired" /\ <<ret, qrCodes>>' # <<ret, qrCodes>>

C36_SweepRemovesExpiredOnly ==
  SweepStep =>
    \A s \in Sessions :
      qrCodes'[s] = (IF qrCodes[s] # NoQR /\ now - qrCodes[s].timestamp > TTL
                     THEN NoQR ELSE qrCodes[s])

\* what get(s) returns at time t in the run with the same stores and
\* removes and no sweep: the last payload stored and not removed, up to TTL
GetWithoutSweeps(s, t) ==
  IF lastStore[s] # NoQR /\ t - lastStore[s].timestamp <= TTL
  THEN lastStore[s].qr ELSE NULL

C36_GetUnaffected ==
  /\ ret.op = "getQR" => ret.value = GetWithoutSweeps(ret.session, now)
  /\ \A s \in Sessions : QRStore_getQR(qrCodes, s, now) = GetWithoutSweeps(s, now)

\* C36: a sweep removes every entry older than TTL and leaves every other
\* entry as it is, and a get returns what the stores, removes and clock
\* advances before it determine, whether or not sweeps ran in between.
C36_SweepNotNeeded == []C36_GetUnaffected /\ [][C36_SweepRemovesExpiredOnly]_vars

\* a sweep removed the expired entry of ghost and kept the entry of alice,
\* stored exactly TTL ago
C36_SweptGhostKeptAlice ==
  /\ ret.op = "clearExpired"
  /\ ret.removed = {"ghost"}
  /\ qrCodes["alice"] # NoQR
  /\ qrCodes["alice"] = lastStore["alice"]
  /\ now - qrCodes["alice"].timestamp = TTL


(* ------------------------------- C37 ----------------------------------- *)

KeyedOps == {"storeQR", "getQR", "removeQR"}

\* the current step is a store, get or remove
KeyedStep == ret'.op \in KeyedOps /\ <<ret, qrCodes>>' # <<ret, qrCodes>>

C37_KeyLocal ==
  KeyedStep => \A s \in Sessions \ {ret'.session} : qrCodes'[s] = qrCodes[s]

C37_RemoveStep ==
  (KeyedStep /\ ret'.op = "removeQR")
  => /\ qrCodes'[ret'.session] = NoQR
     /\ qrCodes[ret'.session] = NoQR => qrCodes' = qrCodes

\* a second remove(s) would leave the store as the first one left it
C37_RemoveTwice ==
  \A s \in Sessions :
    QRStore_removeQR(QRStore_removeQR(qrCodes, s), s) = QRStore_removeQR(qrCodes, s)

\* C37: remove(s) applied twice leaves the store as applied once,
\* remove(s) of an absent key completes and changes nothing, and a store,
\* get or remove for session s leaves the entry of every other session as
\* it is.
C37_RemoveIdempotentKeyLocal ==
  []C37_RemoveTwice /\ [][C37_KeyLocal /\ C37_RemoveStep]_vars

\* a remove for ghost, which had no entry, completed next to alice's entry
C37_RemovedAbsentKey ==
  /\ ret.op = "removeQR" /\ ret.session = "ghost"
  /\ ret.removed = NoQR
  /\ qrCodes["ghost"] = NoQR
  /\ qrCodes["alice"] # NoQR
  /\ qrCodes["alice"] = lastStore["alice"]


(* ------------------------------- C38 ----------------------------------- *)

\* the tenant of session s has a callback URL, auth type oauth and the
\* username, password and token URL set
ConfiguredOAuthTenant(s) ==
  /\ s \in Tenants
  /\ TruthyStr(users[s].callback_url)
  /\ users[s].webhook_auth_type = "oauth"
  /\ Present(users[s].webhook_auth_username)
  /\ Present(users[s].webhook_auth_password)
  /\ Present(users[s].webhook_auth_token_url)

C38_EveryDispatchFetches ==
  \A i \in Started :
    LET ev == events'[i]
    IN  (~ev.filtered /\ ConfiguredOAuthTenant(ev.session))
        => /\ Len(ev.tokenRequests) = 1
           /\ ev.pc = "fetch"
           /\ ev.posts = <<>>

\* C38: when the token endpoint only returns lifetimes of at most the
\* 5-minute buffer, no token is served from the cache: every dispatch for
\* the oauth tenant sends a token request before its POST.
C38_ShortTokensNeverCached == [][C38_EveryDispatchFetches]_vars


(* ------------------------------- C39 ----------------------------------- *)

\* the text fields of a message in the priority order of the claim
TextPriority ==
  <<"conversation", "extendedText", "imageCaption", "videoCaption",
    "documentCaption", "contactDisplayName", "locationComment",
    "liveLocationCaption">>

RECURSIVE FirstNonNullFrom(_, _)
FirstNonNullFrom(m, k) ==
  IF k > Len(TextPriority) THEN NULL
  ELSE IF m[TextPriority[k]] # NULL THEN m[TextPriority[k]]
  ELSE FirstNonNullFrom(m, k + 1)

RECURSIVE FirstNonEmptyFrom(_, _)
FirstNonEmptyFrom(m, k) ==
  IF k > Len(TextPriority) THEN NULL
  ELSE IF m[TextPriority[k]] \notin {NULL, ""} THEN m[TextPriority[k]]
  ELSE FirstNonEmptyFrom(m, k + 1)

\* the body of the POST started by this step, for a message event
BodyStarted(i) ==
  /\ i \in Started
  /\ ret'.op = "message"
  /\ events'[i].kind = "message"
  /\ ~events'[i].filtered
  /\ Len(events'[i].posts) >= 1

C39_KeyCopied(i) ==
  LET body == events'[i].posts[1].body
  IN  /\ body.session = ret'.msg.sessionId
      /\ body.from = ret'.msg.remoteJid
      /\ body.messageId = ret'.msg.id

C39_FirstNonNull ==
  \A i \in DOMAIN events' :
    BodyStarted(i) =>
      /\ events'[i].posts[1].body.message = FirstNonNullFrom(ret'.msg.message, 1)
      /\ C39_KeyCopied(i)

C39_FirstNonEmpty ==
  \A i \in DOMAIN events' :
    BodyStarted(i) =>
      LET text == events'[i].posts[1].body.message
      IN  /\ text = FirstNonEmptyFrom(ret'.msg.message, 1)
          /\ (text = NULL) <=>
               (\A k \in DOMAIN TextPriority :
                  ret'.msg.message[TextPriority[k]] \in {NULL, ""})
          /\ C39_KeyCopied(i)

\* C39 as stated: the message field of the body is the first non-null text
\* field in priority order (null only when all are null), and session, from
\* and messageId are those of the event.
C39_MessageIsFirstNonNull == [][C39_FirstNonNull]_vars

\* C39, amended: the message field of the body is the first text field in
\* priority order that is neither null nor the empty string, and is null
\* exactly when every field is null or empty; session, from and messageId
\* are those of the event.
C39_MessageIsFirstNonEmpty == [][C39_FirstNonEmpty]_vars

\* a body whose text is the second field set, the first one being empty
C39_EmptyTextSkipped ==
  \E i \in DOMAIN events :
    /\ ret.op = "message"
    /\ i = Len(events)
    /\ Len(events[i].posts) = 1
    /\ ret.msg.message.conversation = ""
    /\ ret.msg.message.imageCaption = "second"
    /\ events[i].posts[1].body.message = "second"

====
